---- MODULE Spec2Model ----
(***************************************************************************)
(* Model of the knowledge-graph query core of ark-agent-cli: the parquet   *)
(* (DuckDB) query functions of src/parquet-tools/queries.ts, the           *)
(* relational (drizzle/PostgreSQL) query functions of src/db/queries.ts    *)
(* and the searchInSurroundings tool of tools.ts built on them.            *)
(*                                                                         *)
(* The store is two tables, kept as sequences of rows in physical order.   *)
(* A scan returns the rows in that order; SELECT DISTINCT keeps the first  *)
(* occurrence of each value.  Strings that the code only compares for      *)
(* equality (ids, types) are TLA+ strings; SQL NULL is the value Null.     *)
(* An Edge row's properties column is never read by the modelled code and  *)
(* is left out.                                                            *)
(***************************************************************************)
EXTENDS Integers, Sequences, FiniteSets, TLC

VARIABLES backend, nodes, edges, call, ret

vars == <<backend, nodes, edges, call, ret>>

\* SQL NULL / a JavaScript null.
Null == "<null>"

\* The empty string: a legal column value and argument, falsy in JavaScript.
Empty == ""

\* JavaScript truthiness of a string-or-null value.
Truthy(s) == s # Null /\ s # Empty

\* The graph ids the store knows: the keys of GraphLoader.files, and the rows
\* of the knowledge_graph table.
KnownGraphs == {1, 2}

\* ------------------------------------------------------------------ helpers

Range(s) == {s[i] : i \in 1..Len(s)}

RECURSIVE Dedup(_)
\* First occurrences, in order (SELECT DISTINCT, new Set(...)).
Dedup(s) ==
  IF s = <<>> THEN <<>>
  ELSE LET r == Dedup(SubSeq(s, 1, Len(s) - 1))
           x == s[Len(s)]
       IN IF x \in Range(r) THEN r ELSE Append(r, x)

RECURSIVE Flatten(_)
Flatten(ss) ==
  IF ss = <<>> THEN <<>> ELSE Flatten(SubSeq(ss, 1, Len(ss) - 1)) \o ss[Len(ss)]

Ok(v) == [status |-> "ok", kind |-> "", value |-> v]

Err(k) == [status |-> "error", kind |-> k, value |-> <<>>]

\* ------------------------------------------------- parquet: table sources

\* nodesSource / edgesSource: an unknown graph id throws while the SQL text is
\* built; an empty id list gives the text "()", which DuckDB rejects when the
\* query runs.
SourceError(G) ==
  IF \E i \in 1..Len(G) : G[i] \notin KnownGraphs THEN "UnknownGraph"
  ELSE IF Len(G) = 0 THEN "SqlError"
  ELSE ""

\* The rows of the UNION ALL over the files of G, each tagged with its graph id.
PqRows(table, G) ==
  Flatten([i \in 1..Len(G) |->
             SelectSeq(table, LAMBDA r : r.knowledgeGraphId = G[i])])

\* ---------------------------------------------- relational: table filter

\* inArray(col, []) throws in the drizzle versions that reject an empty list
\* and compiles to `false` in the others: both outcomes are builds of this code.
InArrayEmpty == {"throws", "false"}

\* WHERE inArray(knowledgeGraphId, G)
PgRows(table, G) == SelectSeq(table, LAMBDA r : r.knowledgeGraphId \in Range(G))

Rows(b, table, G) == IF b = "parquet" THEN PqRows(table, G) ELSE PgRows(table, G)

\* ------------------------------------------------------------------ text

\* Text the code inspects (names, properties, the query) is a sequence of
\* one-character strings; NullText is a NULL column or an absent argument.
NullText == <<Null>>

TruthyText(s) == s # NullText /\ s # <<>>

\* String.prototype.toLowerCase / the case folding of ILIKE, on the alphabet
\* the model draws text from.
LowerChar(c) ==
  CASE c = "A" -> "a"
    [] c = "B" -> "b"
    [] c = "T" -> "t"
    [] OTHER -> c

ToLowerCase(s) == [i \in 1..Len(s) |-> LowerChar(s[i])]

\* String.prototype.includes: sub occurs in s as a contiguous substring.
Includes(s, sub) ==
  \E i \in 0..(Len(s) - Len(sub)) : SubSeq(s, i + 1, i + Len(sub)) = sub

\* n.name ILIKE '%text%': NULL never matches; the model's text holds no
\* LIKE wildcard.
ILike(name, text) ==
  name # NullText /\ Includes(ToLowerCase(name), ToLowerCase(text))

\* -------------------------------------------------------- query functions
\* Every function takes the backend b ("parquet": src/parquet-tools/queries.ts,
\* "pg": src/db/queries.ts), the tables, and its arguments, and gives Ok(value)
\* or Err(kind).  e is the build's inArray-of-nothing behaviour (InArrayEmpty).

\* The failure, if any, of reading a table for the graph ids G.
ReadError(b, G, e, failed) ==
  IF b = "parquet" THEN SourceError(G)
  ELSE IF Len(G) = 0 /\ e = "throws" THEN failed
  ELSE ""

Take(s, n) == SubSeq(s, 1, IF Len(s) < n THEN Len(s) ELSE n)

searchNodesByName(b, ns, name, G, limit, e) ==
  IF b = "parquet" THEN
    IF Len(G) = 0 THEN Ok(<<>>)
    ELSE IF SourceError(G) # "" THEN Err(SourceError(G))
    ELSE Ok(Take(SelectSeq(PqRows(ns, G), LAMBDA n : ILike(n.name, name)), limit))
  ELSE
    Ok(Take(SelectSeq(ns, LAMBDA n :
              /\ (TruthyText(name) => ILike(n.name, name))
              /\ (Len(G) > 0 => n.knowledgeGraphId \in Range(G))), limit))

\* getNodesByIds without the graph filter of its source.
getNodesByIdsAnyGraph(b, ns, G, nodeIds, e) == Ok(SelectSeq(ns, LAMBDA n : n.id \in Range(nodeIds)))

getNodesByIds(b, ns, G, nodeIds, e) ==
  IF Len(nodeIds) = 0 THEN Ok(<<>>)
  ELSE IF ReadError(b, G, e, "Failed to get nodes by ids") # ""
    THEN Err(ReadError(b, G, e, "Failed to get nodes by ids"))
  ELSE Ok(SelectSeq(Rows(b, ns, G), LAMBDA n : n.id \in Range(nodeIds)))

\* getEdgesBetweenNodes matching the edges from node1Id to node2Id only.
getEdgesBetweenNodesOneWay(b, es, G, node1Id, node2Id, e) == IF ReadError(b, G, e, "Failed to get edges between nodes") # "" THEN Err(ReadError(b, G, e, "Failed to get edges between nodes")) ELSE Ok(SelectSeq(Rows(b, es, G), LAMBDA r : r.from = node1Id /\ r.to = node2Id))

getEdgesBetweenNodes(b, es, G, node1Id, node2Id, e) ==
  IF ReadError(b, G, e, "Failed to get edges between nodes") # ""
    THEN Err(ReadError(b, G, e, "Failed to get edges between nodes"))
  ELSE Ok(SelectSeq(Rows(b, es, G), LAMBDA r :
            \/ (r.from = node1Id /\ r.to = node2Id)
            \/ (r.from = node2Id /\ r.to = node1Id)))

\* CASE WHEN e."from" = nid THEN e."to" ELSE e."from" END
OtherEnd(r, nid) == IF r.from = nid THEN r.to ELSE r.from

getNeighbors(b, es, G, nodeId, edgeType, e) ==
  IF ReadError(b, G, e, "Failed to get neighbors") # ""
    THEN Err(ReadError(b, G, e, "Failed to get neighbors"))
  ELSE
    LET hit == SelectSeq(Rows(b, es, G), LAMBDA r :
                 /\ (r.from = nodeId \/ r.to = nodeId)
                 /\ (Truthy(edgeType) => r.type = edgeType))
    IN Ok(Dedup([i \in 1..Len(hit) |-> OtherEnd(hit[i], nodeId)]))

\* The loop of getKHopNeighborIds over the 1-hop list: the Set keeps each id
\* at its first insertion.
\* TwoHopOnly without the twoHopNeighborId !== nodeId test.
TwoHopOnlyKeepsNode(b, es, G, nodeId, oneHop, e) ==
  LET lists == [i \in 1..Len(oneHop) |->
                  getNeighbors(b, es, G, oneHop[i], Null, e).value]
  IN Dedup(SelectSeq(Flatten(lists), LAMBDA x : x \notin Range(oneHop)))

\* TwoHopOnly collecting into an array instead of a Set.
TwoHopOnlyKeepsRepeats(b, es, G, nodeId, oneHop, e) ==
  LET lists == [i \in 1..Len(oneHop) |->
                  getNeighbors(b, es, G, oneHop[i], Null, e).value]
  IN SelectSeq(Flatten(lists), LAMBDA x :
       x # nodeId /\ x \notin Range(oneHop))

TwoHopOnly(b, es, G, nodeId, oneHop, e) ==
  LET lists == [i \in 1..Len(oneHop) |->
                  getNeighbors(b, es, G, oneHop[i], Null, e).value]
  IN Dedup(SelectSeq(Flatten(lists), LAMBDA x :
             x # nodeId /\ x \notin Range(oneHop)))

\* getKHopNeighborIds with the k = 2 expansion filtered by edgeType instead of
\* answered with the empty list.
getKHopNeighborIdsFiltersTwoHops(b, es, G, nodeId, k, edgeType, e) ==
  LET first == getNeighbors(b, es, G, nodeId, edgeType, e)
  IN IF k = 1 \/ first.status = "error" THEN first
     ELSE Ok(first.value \o TwoHopOnly(b, es, G, nodeId, first.value, e))

\* getKHopNeighborIds with the k = 1 branch not handing edgeType on.
getKHopNeighborIdsDropsEdgeType(b, es, G, nodeId, k, edgeType, e) ==
  IF k = 1 THEN getNeighbors(b, es, G, nodeId, Null, e)
  ELSE IF Truthy(edgeType) THEN Ok(<<>>)
  ELSE
    LET first == getNeighbors(b, es, G, nodeId, Null, e)
    IN IF first.status = "error" THEN first
       ELSE Ok(first.value \o TwoHopOnly(b, es, G, nodeId, first.value, e))

getKHopNeighborIds(b, es, G, nodeId, k, edgeType, e) ==
  IF k = 1 THEN getNeighbors(b, es, G, nodeId, edgeType, e)
  ELSE IF Truthy(edgeType) THEN Ok(<<>>)
  ELSE
    LET first == getNeighbors(b, es, G, nodeId, Null, e)
    IN IF first.status = "error" THEN first
       ELSE Ok(first.value \o TwoHopOnly(b, es, G, nodeId, first.value, e))

\* nodesMap.get(id): new Map(rows.map(n => [n.id, n])) keeps, for an id that
\* several rows carry, the last row.  Has/Get split the undefined case.
MapHas(rows, id) == \E i \in 1..Len(rows) : rows[i].id = id

MapGet(rows, id) ==
  rows[CHOOSE i \in 1..Len(rows) :
         /\ rows[i].id = id
         /\ \A j \in (i + 1)..Len(rows) : rows[j].id # id]

\* source_neighbors / destination_neighbors of the findPaths CTE.
NeighborRows(rows, nid) ==
  LET hit == SelectSeq(rows, LAMBDA r : r.from = nid \/ r.to = nid)
  IN [i \in 1..Len(hit) |->
        [neighborId |-> OtherEnd(hit[i], nid), edgeType |-> hit[i].type]]

\* IntermediateNodesInfo selected with DISTINCT.
IntermediateNodesInfoDistinct(rows, sourceNodeId, destinationNodeId) ==
  LET s == NeighborRows(rows, sourceNodeId)
      d == NeighborRows(rows, destinationNodeId)
  IN Dedup(Flatten([i \in 1..Len(s) |->
       LET m == SelectSeq(d, LAMBDA x : x.neighborId = s[i].neighborId)
       IN [j \in 1..Len(m) |->
             [intermediateNodeId |-> s[i].neighborId,
              sourceEdgeType |-> s[i].edgeType,
              destinationEdgeType |-> m[j].edgeType]]]))

\* source_neighbors s INNER JOIN destination_neighbors d ON the neighbor id,
\* enumerated source-row-major.
IntermediateNodesInfo(rows, sourceNodeId, destinationNodeId) ==
  LET s == NeighborRows(rows, sourceNodeId)
      d == NeighborRows(rows, destinationNodeId)
  IN Flatten([i \in 1..Len(s) |->
       LET m == SelectSeq(d, LAMBDA x : x.neighborId = s[i].neighborId)
       IN [j \in 1..Len(m) |->
             [intermediateNodeId |-> s[i].neighborId,
              sourceEdgeType |-> s[i].edgeType,
              destinationEdgeType |-> m[j].edgeType]]])

\* KeepsPath testing the source side's edge type only.
KeepsPathChecksSourceOnly(info, nodesInfo) ==
  /\ MapHas(nodesInfo, info.intermediateNodeId)
  /\ Truthy(info.sourceEdgeType)

\* The guard of the final map: the tuples that become a Path.
KeepsPath(info, nodesInfo) ==
  /\ MapHas(nodesInfo, info.intermediateNodeId)
  /\ Truthy(info.sourceEdgeType)
  /\ Truthy(info.destinationEdgeType)

\* PathOf with the edge types of the two legs exchanged.
PathOfTypesSwapped(info, nodesInfo, sourceNodeId, destinationNodeId) == [legs |-> << [tailNode |-> MapGet(nodesInfo, sourceNodeId), edgeType |-> info.destinationEdgeType, headNode |-> MapGet(nodesInfo, info.intermediateNodeId)], [tailNode |-> MapGet(nodesInfo, info.intermediateNodeId), edgeType |-> info.sourceEdgeType, headNode |-> MapGet(nodesInfo, destinationNodeId)] >>]

PathOf(info, nodesInfo, sourceNodeId, destinationNodeId) ==
  [legs |-> <<
     [tailNode |-> MapGet(nodesInfo, sourceNodeId),
      edgeType |-> info.sourceEdgeType,
      headNode |-> MapGet(nodesInfo, info.intermediateNodeId)],
     [tailNode |-> MapGet(nodesInfo, info.intermediateNodeId),
      edgeType |-> info.destinationEdgeType,
      headNode |-> MapGet(nodesInfo, destinationNodeId)] >>]

\* findPaths throwing for a missing endpoint, as the other operations do for a
\* missing main node.
findPathsThrowsOnMissingEndpoint(b, ns, es, G, sourceNodeId, destinationNodeId, e) ==
  IF ReadError(b, G, e, "Failed to find paths") # ""
    THEN Err(ReadError(b, G, e, "Failed to find paths"))
  ELSE
    LET info == IntermediateNodesInfo(Rows(b, es, G), sourceNodeId,
                                      destinationNodeId)
        allNodeIds == Dedup(<<sourceNodeId, destinationNodeId>> \o
                            [i \in 1..Len(info) |-> info[i].intermediateNodeId])
        nodesInfo == getNodesByIds(b, ns, G, allNodeIds, e).value
        kept == SelectSeq(info, LAMBDA x : KeepsPath(x, nodesInfo))
    IN IF Len(info) = 0 THEN Ok(<<>>)
       ELSE IF ~MapHas(nodesInfo, sourceNodeId)
               \/ ~MapHas(nodesInfo, destinationNodeId)
         THEN Err("Node not found")
       ELSE Ok([i \in 1..Len(kept) |->
                  PathOf(kept[i], nodesInfo, sourceNodeId, destinationNodeId)])

findPaths(b, ns, es, G, sourceNodeId, destinationNodeId, e) ==
  IF ReadError(b, G, e, "Failed to find paths") # ""
    THEN Err(ReadError(b, G, e, "Failed to find paths"))
  ELSE
    LET info == IntermediateNodesInfo(Rows(b, es, G), sourceNodeId,
                                      destinationNodeId)
        allNodeIds == Dedup(<<sourceNodeId, destinationNodeId>> \o
                            [i \in 1..Len(info) |-> info[i].intermediateNodeId])
        nodesInfo == getNodesByIds(b, ns, G, allNodeIds, e).value
        kept == SelectSeq(info, LAMBDA x : KeepsPath(x, nodesInfo))
    IN IF Len(info) = 0 THEN Ok(<<>>)
       ELSE IF ~MapHas(nodesInfo, sourceNodeId)
               \/ ~MapHas(nodesInfo, destinationNodeId) THEN Ok(<<>>)
       ELSE Ok([i \in 1..Len(kept) |->
                  PathOf(kept[i], nodesInfo, sourceNodeId, destinationNodeId)])

\* ------------------------------------------- tools.ts: searchInSurroundings

STOPWORDS ==
  {<<"t", "h", "e">>, <<"a">>, <<"a", "n">>,
   <<"a", "n", "d">>, <<"o", "r">>, <<"b", "u", "t">>,
   <<"i", "n">>, <<"o", "n">>, <<"a", "t">>,
   <<"t", "o">>, <<"f", "o", "r">>, <<"o", "f">>,
   <<"w", "i", "t", "h">>, <<"b", "y">>, <<"i", "s">>,
   <<"a", "r", "e">>, <<"w", "a", "s">>, <<"w", "e", "r", "e">>,
   <<"b", "e">>, <<"b", "e", "e", "n">>, <<"h", "a", "v", "e">>,
   <<"h", "a", "s">>, <<"h", "a", "d">>, <<"d", "o">>,
   <<"d", "o", "e", "s">>, <<"d", "i", "d">>, <<"w", "i", "l", "l">>,
   <<"w", "o", "u", "l", "d">>, <<"c", "o", "u", "l", "d">>, <<"s", "h", "o", "u", "l", "d">>,
   <<"m", "a", "y">>, <<"m", "i", "g", "h", "t">>, <<"c", "a", "n">>,
   <<"m", "u", "s", "t">>, <<"s", "h", "a", "l", "l">>, <<"t", "h", "i", "s">>,
   <<"t", "h", "a", "t">>, <<"t", "h", "e", "s", "e">>, <<"t", "h", "o", "s", "e">>,
   <<"i">>, <<"y", "o", "u">>, <<"h", "e">>,
   <<"s", "h", "e">>, <<"i", "t">>, <<"w", "e">>,
   <<"t", "h", "e", "y">>, <<"m", "e">>, <<"h", "i", "m">>,
   <<"h", "e", "r">>, <<"u", "s">>, <<"t", "h", "e", "m">>}

\* query.replace("-", " "): a string pattern replaces the first occurrence only.
ReplaceFirst(s, old, new) ==
  IF \E i \in 1..Len(s) : s[i] = old
  THEN LET i == CHOOSE k \in 1..Len(s) :
                  s[k] = old /\ \A j \in 1..(k - 1) : s[j] # old
       IN [s EXCEPT ![i] = new]
  ELSE s

RECURSIVE Split(_, _)
\* String.prototype.split(sep) for a one-character separator: every separator
\* cuts, so adjacent, leading and trailing separators give empty pieces.
Split(s, sep) ==
  IF \E i \in 1..Len(s) : s[i] = sep
  THEN LET i == CHOOSE k \in 1..Len(s) :
                  s[k] = sep /\ \A j \in 1..(k - 1) : s[j] # sep
       IN <<SubSeq(s, 1, i - 1)>> \o Split(SubSeq(s, i + 1, Len(s)), sep)
  ELSE <<s>>

RECURSIVE Join(_, _)
\* Array.prototype.join
Join(ws, sep) ==
  IF Len(ws) = 0 THEN <<>>
  ELSE IF Len(ws) = 1 THEN ws[1]
  ELSE Join(SubSeq(ws, 1, Len(ws) - 1), sep) \o sep \o ws[Len(ws)]

DigitChar == <<"0", "1", "2", "3", "4", "5", "6", "7", "8", "9">>

RECURSIVE NumberText(_)
\* A non-negative integer in a template literal.
NumberText(n) ==
  IF n < 10 THEN <<DigitChar[n + 1]>>
  ELSE NumberText(n \div 10) \o <<DigitChar[(n % 10) + 1]>>

QueryWords(query) ==
  LET parts == Split(ReplaceFirst(query, "-", " "), " ")
  IN SelectSeq([i \in 1..Len(parts) |-> ToLowerCase(parts[i])],
               LAMBDA w : w \notin STOPWORDS)

\* c.name?.toLowerCase().includes(query.toLowerCase())
InName(c, query) ==
  c.name # NullText /\ Includes(ToLowerCase(c.name), ToLowerCase(query))

AppearingWords(c, queryWords) ==
  SelectSeq(queryWords, LAMBDA qw : Includes(ToLowerCase(c.properties), qw))

\* MatchExplanation writing "matches" for every relevance.
MatchExplanationAlwaysPlural(relevance, appearingWords) ==
  NumberText(relevance) \o <<" ", "m", "a", "t", "c", "h", "e", "s", ":", " ">>
    \o Join(appearingWords, <<",", " ">>)

MatchExplanation(relevance, appearingWords) ==
  NumberText(relevance) \o <<" ", "m", "a", "t", "c", "h">>
    \o (IF relevance = 1 THEN <<>> ELSE <<"e", "s">>)
    \o <<":", " ">> \o Join(appearingWords, <<",", " ">>)

\* Array.prototype.sort((a, b) => b.relevance - a.relevance): stable, descending.
SortByRelevance(cs) ==
  LET most == IF Len(cs) = 0 THEN 0
              ELSE CHOOSE m \in {cs[i].relevance : i \in 1..Len(cs)} :
                     \A i \in 1..Len(cs) : cs[i].relevance <= m
  IN Flatten([k \in 1..most |->
                SelectSeq(cs, LAMBDA c : c.relevance = most + 1 - k)])

WithRelevance(c, queryWords) ==
  [knowledgeGraphId |-> c.knowledgeGraphId, id |-> c.id, name |-> c.name,
   type |-> c.type, properties |-> c.properties,
   relevance |-> Len(AppearingWords(c, queryWords)),
   appearingWords |-> AppearingWords(c, queryWords)]

WithExplanation(c) ==
  [knowledgeGraphId |-> c.knowledgeGraphId, id |-> c.id, name |-> c.name,
   type |-> c.type, properties |-> c.properties,
   relevance |-> c.relevance, appearingWords |-> c.appearingWords,
   matchExplanation |-> MatchExplanation(c.relevance, c.appearingWords)]

CandidatesInName(candidates, query) ==
  SelectSeq(candidates, LAMBDA c : InName(c, query))

CandidatesInProperties(candidates, query) ==
  LET inName == CandidatesInName(candidates, query)
      rest == SelectSeq(candidates, LAMBDA c :
                /\ ~(\E i \in 1..Len(inName) : inName[i].id = c.id)
                /\ TruthyText(c.properties))
      scored == [i \in 1..Len(rest) |-> WithRelevance(rest[i], QueryWords(query))]
      sorted == SortByRelevance(SelectSeq(scored, LAMBDA c : c.relevance > 0))
  IN [i \in 1..Len(sorted) |-> WithExplanation(sorted[i])]

\* CandidatesWithQuery ranking for every query that was passed, the empty
\* string included.
CandidatesWithQueryRanksEmpty(candidates, query) ==
  IF query # NullText
  THEN CandidatesInName(candidates, query) \o CandidatesInProperties(candidates, query)
  ELSE candidates

CandidatesWithQuery(candidates, query) ==
  IF TruthyText(query)
  THEN CandidatesInName(candidates, query) \o CandidatesInProperties(candidates, query)
  ELSE candidates

\* The two fields a 1-hop neighbor carries besides those of the candidate.
EdgeListFields == {"edgesToCandidate", "edgesFromCandidate"}

\* WithEdges with the two directions exchanged.
WithEdgesSwapped(c, between, nodeId) ==
  LET to == SelectSeq(between, LAMBDA r : r.to = nodeId)
      from == SelectSeq(between, LAMBDA r : r.from = nodeId)
  IN [f \in (DOMAIN c) \cup EdgeListFields |->
        IF f = "edgesToCandidate" THEN [i \in 1..Len(to) |-> to[i].type]
        ELSE IF f = "edgesFromCandidate" THEN [i \in 1..Len(from) |-> from[i].type]
        ELSE c[f]]

\* { ...candidate, edgesToCandidate, edgesFromCandidate }
WithEdges(c, between, nodeId) ==
  LET to == SelectSeq(between, LAMBDA r : r.from = nodeId)
      from == SelectSeq(between, LAMBDA r : r.to = nodeId)
  IN [f \in (DOMAIN c) \cup EdgeListFields |->
        IF f = "edgesToCandidate" THEN [i \in 1..Len(to) |-> to[i].type]
        ELSE IF f = "edgesFromCandidate" THEN [i \in 1..Len(from) |-> from[i].type]
        ELSE c[f]]

\* The 2-hop response keeps the five node fields only.
Bare(c) ==
  [type |-> c.type, name |-> c.name, id |-> c.id,
   knowledgeGraphId |-> c.knowledgeGraphId, properties |-> c.properties]

\* Number.parseInt(k, 10) of the optional one-digit k, default 1.
HopsIgnoresK(k) == 1

\* Hops bringing an out-of-range k into the range instead of leaving it to be
\* rejected.
HopsClampsK(k) ==
  IF k = Null \/ k = Empty THEN 1
  ELSE LET n == CHOOSE x \in 0..9 : DigitChar[x + 1] = k
       IN IF n < 1 THEN 1 ELSE IF n > 2 THEN 2 ELSE n

Hops(k) == IF k = Null \/ k = Empty THEN 1
           ELSE CHOOSE n \in 0..9 : DigitChar[n + 1] = k

\* searchInSurroundings answering, for a main node that is not there, with an
\* empty response instead of throwing.
searchSurroundingsNoThrow(b, ns, es, G, nodeId, query, nodeType, edgeType, k, e) ==
  LET hops == Hops(k)
      mainNodes == getNodesByIds(b, ns, G, <<nodeId>>, e)
      neighborIds == getKHopNeighborIds(b, es, G, nodeId, hops, edgeType, e)
      fetched == getNodesByIds(b, ns, G, neighborIds.value, e)
      candidates == IF Truthy(nodeType)
                    THEN SelectSeq(fetched.value, LAMBDA c : c.type = nodeType)
                    ELSE fetched.value
      ranked == CandidatesWithQuery(candidates, query)
      lookups == [i \in 1..Len(ranked) |->
                    getEdgesBetweenNodes(b, es, G, nodeId, ranked[i].id, e)]
  IN IF hops # 1 /\ hops # 2 THEN Err("k must be 1 or 2")
     ELSE IF hops = 2 /\ Truthy(edgeType)
       THEN Err("Filtering by edge type is not supported when k=2")
     ELSE IF mainNodes.status = "error" THEN mainNodes
     ELSE IF Len(mainNodes.value) = 0
       THEN Ok([mainNode |-> Null, neighbors |-> <<>>])
     ELSE IF neighborIds.status = "error" THEN neighborIds
     ELSE IF fetched.status = "error" THEN fetched
     ELSE IF hops = 1 THEN
       IF \E i \in 1..Len(lookups) : lookups[i].status = "error"
       THEN lookups[CHOOSE i \in 1..Len(lookups) : lookups[i].status = "error"]
       ELSE Ok([mainNode |-> mainNodes.value[1],
                neighbors |-> [i \in 1..Len(ranked) |->
                                 WithEdges(ranked[i], lookups[i].value, nodeId)]])
     ELSE Ok([mainNode |-> mainNodes.value[1],
              neighbors |-> [i \in 1..Len(ranked) |-> Bare(ranked[i])]])

\* searchInSurroundings without the nodeType filter.
searchSurroundingsAnyType(b, ns, es, G, nodeId, query, nodeType, edgeType, k, e) ==
  LET hops == Hops(k)
      mainNodes == getNodesByIds(b, ns, G, <<nodeId>>, e)
      neighborIds == getKHopNeighborIds(b, es, G, nodeId, hops, edgeType, e)
      fetched == getNodesByIds(b, ns, G, neighborIds.value, e)
      candidates == fetched.value
      ranked == CandidatesWithQuery(candidates, query)
      lookups == [i \in 1..Len(ranked) |->
                    getEdgesBetweenNodes(b, es, G, nodeId, ranked[i].id, e)]
  IN IF hops # 1 /\ hops # 2 THEN Err("k must be 1 or 2")
     ELSE IF hops = 2 /\ Truthy(edgeType)
       THEN Err("Filtering by edge type is not supported when k=2")
     ELSE IF mainNodes.status = "error" THEN mainNodes
     ELSE IF Len(mainNodes.value) = 0 THEN Err("Node not found")
     ELSE IF neighborIds.status = "error" THEN neighborIds
     ELSE IF fetched.status = "error" THEN fetched
     ELSE IF hops = 1 THEN
       IF \E i \in 1..Len(lookups) : lookups[i].status = "error"
       THEN lookups[CHOOSE i \in 1..Len(lookups) : lookups[i].status = "error"]
       ELSE Ok([mainNode |-> mainNodes.value[1],
                neighbors |-> [i \in 1..Len(ranked) |->
                                 WithEdges(ranked[i], lookups[i].value, nodeId)]])
     ELSE Ok([mainNode |-> mainNodes.value[1],
              neighbors |-> [i \in 1..Len(ranked) |-> Bare(ranked[i])]])

searchSurroundings(b, ns, es, G, nodeId, query, nodeType, edgeType, k, e) ==
  LET hops == Hops(k)
      mainNodes == getNodesByIds(b, ns, G, <<nodeId>>, e)
      neighborIds == getKHopNeighborIds(b, es, G, nodeId, hops, edgeType, e)
      fetched == getNodesByIds(b, ns, G, neighborIds.value, e)
      candidates == IF Truthy(nodeType)
                    THEN SelectSeq(fetched.value, LAMBDA c : c.type = nodeType)
                    ELSE fetched.value
      ranked == CandidatesWithQuery(candidates, query)
      lookups == [i \in 1..Len(ranked) |->
                    getEdgesBetweenNodes(b, es, G, nodeId, ranked[i].id, e)]
  IN IF hops # 1 /\ hops # 2 THEN Err("k must be 1 or 2")
     ELSE IF hops = 2 /\ Truthy(edgeType)
       THEN Err("Filtering by edge type is not supported when k=2")
     ELSE IF mainNodes.status = "error" THEN mainNodes
     ELSE IF Len(mainNodes.value) = 0 THEN Err("Node not found")
     ELSE IF neighborIds.status = "error" THEN neighborIds
     ELSE IF fetched.status = "error" THEN fetched
     ELSE IF hops = 1 THEN
       IF \E i \in 1..Len(lookups) : lookups[i].status = "error"
       THEN lookups[CHOOSE i \in 1..Len(lookups) : lookups[i].status = "error"]
       ELSE Ok([mainNode |-> mainNodes.value[1],
                neighbors |-> [i \in 1..Len(ranked) |->
                                 WithEdges(ranked[i], lookups[i].value, nodeId)]])
     ELSE Ok([mainNode |-> mainNodes.value[1],
              neighbors |-> [i \in 1..Len(ranked) |-> Bare(ranked[i])]])

\* ------------------------------------------------------------ the stores

\* The node attributes of the modelled data set, by node id.
NameOf(id) ==
  CASE id = "a" -> <<"A", "b">>
    [] id = "b" -> <<"b">>
    [] id = "c" -> NullText
    [] OTHER -> <<"t">>

TypeOf(id) ==
  CASE id = "a" -> "gene"
    [] id = "b" -> "drug"
    [] id = "c" -> Null
    [] OTHER -> "gene"

PropertiesOf(id) ==
  CASE id = "a" -> <<"a", " ", "b">>
    [] id = "b" -> <<"B", "-", "t">>
    [] id = "c" -> NullText
    [] id = "e" -> <<"t">>
    [] OTHER -> <<>>

NodeRow(g, id) ==
  [knowledgeGraphId |-> g, id |-> id, name |-> NameOf(id),
   type |-> TypeOf(id), properties |-> PropertiesOf(id)]

EdgeRows(graphs, ids, types) ==
  [knowledgeGraphId : graphs, from : ids, to : ids, type : types]

\* t is a table of at most n rows drawn from pool, in any row order.
IsTable(t, pool, n) == \E k \in 0..n : t \in [1..k -> pool]

\* The node table that holds one row for every endpoint of an edge, in the
\* order the edge table first names it.
EndpointNodes(es) ==
  LET keys == Dedup(Flatten([i \in 1..Len(es) |->
                 << <<es[i].knowledgeGraphId, es[i].from>>,
                    <<es[i].knowledgeGraphId, es[i].to>> >>]))
  IN [i \in 1..Len(keys) |-> NodeRow(keys[i][1], keys[i][2])]

\* The constraints of src/db/schema.ts: the primary keys (which make every key
\* column NOT NULL) and the two foreign keys of edge into node.
PgValid(ns, es) ==
  /\ \A i, j \in 1..Len(ns) :
       (ns[i].knowledgeGraphId = ns[j].knowledgeGraphId /\ ns[i].id = ns[j].id)
         => i = j
  /\ \A i \in 1..Len(es) : es[i].type # Null
  /\ \A i, j \in 1..Len(es) : es[i] = es[j] => i = j
  /\ \A i \in 1..Len(es) : \A x \in {es[i].from, es[i].to} :
       \E n \in 1..Len(ns) :
         ns[n].knowledgeGraphId = es[i].knowledgeGraphId /\ ns[n].id = x

StoreValid(b, ns, es) == b = "parquet" \/ PgValid(ns, es)

Backends == {"parquet", "pg"}

Idle == [op |-> "idle"]

\* ------------------------------------------------------------ the calls
\* One action per operation.  A call reads the store and leaves it as it is;
\* its arguments are kept in call and its outcome in ret.

\* Graph id lists a caller may pass: none, one graph, two graphs in either
\* order, and an id the store does not know.
GraphLists == {<<>>, <<1>>, <<2>>, <<1, 2>>, <<2, 1>>, <<3>>}

\* An absent edgeType, the empty string, and two type names.
EdgeTypeArgs == {Null, Empty, "t", "u"}

\* limit = 10 when the caller gives none.
DefaultLimit == 10

SearchNodesByName(texts) ==
  /\ call = Idle
  /\ \E name \in texts, G \in GraphLists, limit \in {1, DefaultLimit},
        e \in InArrayEmpty :
       /\ call' = [op |-> "searchNodesByName", name |-> name, G |-> G,
                   limit |-> limit]
       /\ ret' = searchNodesByName(backend, nodes, name, G, limit, e)
  /\ UNCHANGED <<backend, nodes, edges>>

GetNodesByIds(idLists) ==
  /\ call = Idle
  /\ \E G \in GraphLists, nodeIds \in idLists, e \in InArrayEmpty :
       /\ call' = [op |-> "getNodesByIds", G |-> G, nodeIds |-> nodeIds]
       /\ ret' = getNodesByIds(backend, nodes, G, nodeIds, e)
  /\ UNCHANGED <<backend, nodes, edges>>

GetEdgesBetweenNodes(ids) ==
  /\ call = Idle
  /\ \E G \in GraphLists, node1Id \in ids, node2Id \in ids, e \in InArrayEmpty :
       /\ call' = [op |-> "getEdgesBetweenNodes", G |-> G, node1Id |-> node1Id,
                   node2Id |-> node2Id]
       /\ ret' = getEdgesBetweenNodes(backend, edges, G, node1Id, node2Id, e)
  /\ UNCHANGED <<backend, nodes, edges>>

GetNeighbors(lists, ids, types) ==
  /\ call = Idle
  /\ \E G \in lists, nodeId \in ids, edgeType \in types, e \in InArrayEmpty :
       /\ call' = [op |-> "getNeighbors", G |-> G, nodeId |-> nodeId,
                   edgeType |-> edgeType]
       /\ ret' = getNeighbors(backend, edges, G, nodeId, edgeType, e)
  /\ UNCHANGED <<backend, nodes, edges>>

GetKHopNeighborIds(lists, ids, types) ==
  /\ call = Idle
  /\ \E G \in lists, nodeId \in ids, k \in {1, 2}, edgeType \in types,
        e \in InArrayEmpty :
       /\ call' = [op |-> "getKHopNeighborIds", G |-> G, nodeId |-> nodeId,
                   k |-> k, edgeType |-> edgeType]
       /\ ret' = getKHopNeighborIds(backend, edges, G, nodeId, k, edgeType, e)
  /\ UNCHANGED <<backend, nodes, edges>>

FindPaths(lists, sources, destinations) ==
  /\ call = Idle
  /\ \E G \in lists, sourceNodeId \in sources, destinationNodeId \in destinations,
        e \in InArrayEmpty :
       /\ call' = [op |-> "findPaths", G |-> G, sourceNodeId |-> sourceNodeId,
                   destinationNodeId |-> destinationNodeId]
       /\ ret' = findPaths(backend, nodes, edges, G, sourceNodeId,
                           destinationNodeId, e)
  /\ UNCHANGED <<backend, nodes, edges>>

SearchSurroundings(lists, ids, queries, nodeTypes, types, ks) ==
  /\ call = Idle
  /\ \E G \in lists, nodeId \in ids, query \in queries, nodeType \in nodeTypes,
        edgeType \in types, k \in ks, e \in InArrayEmpty :
       /\ call' = [op |-> "searchSurroundings", G |-> G, nodeId |-> nodeId,
                   query |-> query, nodeType |-> nodeType,
                   edgeType |-> edgeType, k |-> k]
       /\ ret' = searchSurroundings(backend, nodes, edges, G, nodeId, query,
                                    nodeType, edgeType, k, e)
  /\ UNCHANGED <<backend, nodes, edges>>

\* ------------------------------------- Spec: the store primitives, two graphs

\* The longest edge table of the two-graph stores.
MaxEdges == 2

\* Stores over the graphs 1 and 2 and the node ids a and b, every endpoint with
\* its node row; the ids c and d name no node.
InitTwoGraphs ==
  /\ backend \in Backends
  /\ IsTable(edges, EdgeRows(KnownGraphs, {"a", "b"}, {"t", "u"}), MaxEdges)
  /\ nodes = EndpointNodes(edges)
  /\ StoreValid(backend, nodes, edges)
  /\ call = Idle
  /\ ret = Ok(<<>>)

Init == InitTwoGraphs

\* The arguments of the calls: names searched for, id lists fetched, node ids.
NameArgs == {<<>>, <<"b">>, <<"A">>}

IdListArgs == {<<>>, <<"a">>, <<"a", "b">>, <<"c">>}

NodeIdArgs == {"a", "b"}

Next ==
  \/ SearchNodesByName(NameArgs)
  \/ GetNodesByIds(IdListArgs)
  \/ GetEdgesBetweenNodes(NodeIdArgs)
  \/ GetNeighbors(GraphLists, NodeIdArgs, EdgeTypeArgs)
  \/ GetKHopNeighborIds(GraphLists, NodeIdArgs, EdgeTypeArgs)
  \/ FindPaths(GraphLists, NodeIdArgs, NodeIdArgs)

Spec == Init /\ [][Next]_vars

\* ------------------------------------ SpecSurr: searchInSurroundings calls

\* The arguments of the searchInSurroundings calls: a stored and an absent main
\* node, no query and one word, no nodeType and one, no edgeType and one, and
\* k absent, "1", "2" and the out-of-range "3".
SurrIds == {"a", "c"}

SurrQueries == {NullText, <<"b">>}

SurrNodeTypes == {Null, "gene"}

SurrEdgeTypes == {Null, "t"}

SurrKs == {Null, "1", "2", "3"}

NextSurr ==
  \/ SearchSurroundings(GraphLists, SurrIds, SurrQueries, SurrNodeTypes,
                        SurrEdgeTypes, SurrKs)
  \/ GetKHopNeighborIds(GraphLists, SurrIds, SurrEdgeTypes)

SpecSurr == InitTwoGraphs /\ [][NextSurr]_vars

\* ------------------------------- SpecHops: two-hop expansion, one graph

\* The longest edge table of the one-graph stores of SpecHops.
MaxHopEdges == 4

\* The ids other than the reference node a, in the order the table first
\* names them.
FirstNamed(es) ==
  SelectSeq(Dedup(Flatten([i \in 1..Len(es) |-> <<es[i].from, es[i].to>>])),
            LAMBDA x : x # "a")

\* The ids other than a are named in the order b, c, d.
NamedInOrder(es) ==
  FirstNamed(es) = SubSeq(<<"b", "c", "d">>, 1, Len(FirstNamed(es)))

RECURSIVE HopTables(_, _)
\* The tables of at most n rows of pool that name the ids in order, each grown
\* from a shorter one by one more row.
HopTables(pool, n) ==
  IF n = 0 THEN {<<>>}
  ELSE LET shorter == HopTables(pool, n - 1)
       IN shorter \cup
          {t \in {Append(x[1], x[2]) :
                    x \in {y \in shorter : Len(y) = n - 1} \X pool} :
             NamedInOrder(t)}

\* Stores of graph 1 over the ids a..d with one edge type.  The calls are about
\* node a; the other ids are interchangeable, so only the tables that first
\* name them in the order b, c, d are drawn.
InitHops ==
  /\ backend \in Backends
  /\ edges \in HopTables(EdgeRows({1}, {"a", "b", "c", "d"}, {"t"}), MaxHopEdges)
  /\ nodes = EndpointNodes(edges)
  /\ StoreValid(backend, nodes, edges)
  /\ call = Idle
  /\ ret = Ok(<<>>)

NextHops == GetKHopNeighborIds({<<1>>}, {"a"}, {Null})

SpecHops == InitHops /\ [][NextHops]_vars

\* ------------------------------------- SpecPaths: findPaths, one graph

\* The longest edge table of the one-graph stores of SpecPaths.
MaxPathEdges == 3

\* The node table holding the rows of the ids in S, in id order.
NodeTable(S) ==
  SelectSeq(<<NodeRow(1, "a"), NodeRow(1, "b"), NodeRow(1, "c")>>,
            LAMBDA n : n.id \in S)

\* A position for each edge row of the one-graph stores: by from, to, type.
EdgeRank(r) ==
  LET idRank(x) == CASE x = "a" -> 0 [] x = "b" -> 1 [] OTHER -> 2
      typeRank(x) == CASE x = "t" -> 0 [] x = "u" -> 1 [] x = Empty -> 2
                       [] OTHER -> 3
  IN (idRank(r.from) * 3 + idRank(r.to)) * 4 + typeRank(r.type)

RECURSIVE RankedTables(_, _)
\* The tables of at most n rows of pool laid out in rank order, each grown from
\* a shorter one by one more row.
RankedTables(pool, n) ==
  IF n = 0 THEN {<<>>}
  ELSE LET shorter == RankedTables(pool, n - 1)
       IN shorter \cup
          {Append(x[1], x[2]) :
             x \in {y \in {z \in shorter : Len(z) = n - 1} \X pool :
                      n = 1 \/ EdgeRank(y[1][n - 1]) <= EdgeRank(y[2])}}

\* The edge rows of the path stores: those that touch a or b, the nodes the
\* calls name, with a type that is a name, the empty string or NULL.
PathEdgeRows ==
  {r \in EdgeRows({1}, {"a", "b", "c"}, {"t", "u", Null, Empty}) :
     r.from # "c" \/ r.to # "c"}

\* Stores of graph 1 over the ids a, b, c: any bag of such edge rows, laid out
\* in rank order, and a node table that lacks at most one of the three rows
\* (the relational store holds only the tables its keys allow).
InitPaths ==
  /\ backend \in Backends
  /\ edges \in RankedTables(PathEdgeRows, MaxPathEdges)
  /\ nodes \in {NodeTable({"a", "b", "c"} \ S) : S \in {{}, {"a"}, {"b"}, {"c"}}}
  /\ StoreValid(backend, nodes, edges)
  /\ call = Idle
  /\ ret = Ok(<<>>)

NextPaths == FindPaths({<<1>>}, {"a"}, NodeIdArgs)

SpecPaths == InitPaths /\ [][NextPaths]_vars

\* ------------------------- SpecRank: the ranking of searchInSurroundings

\* The longest edge table of the one-graph stores of SpecRank.
MaxRankEdges == 2

\* The longest query text drawn character by character.
MaxQueryLen == 2

\* The edge rows of the ranking stores: node a joined to itself and to b, c, d
\* and e, and b joined to d and e (ids two hops from a).
RankEdgeRows ==
  {r \in EdgeRows({1}, {"a", "b", "c", "d", "e"}, {"t"}) :
     \/ r.from = "a"
     \/ (r.from = "b" /\ r.to \in {"d", "e"})}

\* The queries: every text of at most MaxQueryLen characters over two letters,
\* the space and the hyphen; an absent query; and texts of two words, with a
\* repeated word, with stop-words, with capitals, with several hyphens.
RankQueries ==
  (UNION {[1..n -> {"b", "t", " ", "-"}] : n \in 0..MaxQueryLen})
    \cup {NullText, <<"b", " ", "t">>, <<"b", "-", "t">>, <<"b", " ", "b">>,
          <<"a">>, <<"a", " ", "b">>, <<"t", "h", "e", " ", "t">>,
          <<"B">>, <<"T", " ", "B">>, <<"a", "b">>,
          <<"b", "-", "t", "-", "b">>, <<"b", " ", " ", "t">>,
          <<"b", " ", "b", " ", "t">>}

InitRank ==
  /\ backend \in Backends
  /\ IsTable(edges, RankEdgeRows, MaxRankEdges)
  /\ nodes = EndpointNodes(edges)
  /\ StoreValid(backend, nodes, edges)
  /\ call = Idle
  /\ ret = Ok(<<>>)

RankKs == {"1", "2"}

NextRank ==
  SearchSurroundings({<<1>>}, {"a"}, RankQueries, SurrNodeTypes, {Null}, RankKs)

SpecRank == InitRank /\ [][NextRank]_vars

\* ------------------------------------------- SpecAwait: the awaited reads
\* The operations read the store through awaited promises.  Here a call is
\* taken read by read: call keeps the reads still to come (stages, one stage
\* per await; the stage of Promise.all holds one read per ranked candidate),
\* the reads of the current stage that have settled and the order they settled
\* in; ret is written when the call ends.

\* The longest edge table of the stores the awaited calls read.
MaxAwaitEdges == 3

AwaitEdgeRows ==
  {[knowledgeGraphId |-> 1, from |-> "a", to |-> "b", type |-> "t"],
   [knowledgeGraphId |-> 1, from |-> "b", to |-> "a", type |-> "u"],
   [knowledgeGraphId |-> 1, from |-> "a", to |-> "e", type |-> "t"],
   [knowledgeGraphId |-> 1, from |-> "b", to |-> "e", type |-> "t"],
   [knowledgeGraphId |-> 1, from |-> "a", to |-> "d", type |-> "t"]}

\* The arguments of the awaited calls.
AwaitDestinations == {"a", "e"}

AwaitQueries == {NullText, <<"t">>}

AwaitKs == {Null, "2", "3"}

\* What a store read rejects with: an error of the store, or its timeout.
StoreFailures == {"store error", "store timeout"}

\* Promise.all handing the values over in the order they were fulfilled in.
PromiseAllInCompletionOrder(values, order) ==
  IF Len(order) = Len(values)
  THEN [j \in 1..Len(values) |-> values[order[j]]]
  ELSE values

\* Promise.all(candidatesWithQuery.map(async ...)): the fulfilment values in
\* the order of the promises passed, whatever order they were fulfilled in.
PromiseAll(values, order) == values

\* A rejected read answered with an empty result.
RejectionSwallowed(b, failed, why) == Ok(<<>>)

\* What the operation throws when an awaited read rejects with why.  The
\* parquet functions and the tools have no catch: the rejection passes through.
\* Each relational query function catches it and throws its own message.
Rejection(b, failed, why) == Err(IF b = "parquet" THEN why ELSE failed)

OneRead(failed) == << <<failed>> >>

\* The reads of getKHopNeighborIds: one getNeighbors for k = 1, none for k = 2
\* with an edgeType, else one for the node and one per 1-hop neighbor in turn.
KHopReads(b, es, G, nodeId, k, edgeType) ==
  IF k = 1 THEN OneRead("Failed to get neighbors")
  ELSE IF Truthy(edgeType) THEN <<>>
  ELSE LET oneHopNeighbors == getNeighbors(b, es, G, nodeId, Null, "false").value
       IN [i \in 1..(1 + Len(oneHopNeighbors)) |-> <<"Failed to get neighbors">>]

\* The reads of findPaths: the join, then the node rows unless the join is empty.
FindPathsReads(b, es, G, sourceNodeId, destinationNodeId) ==
  OneRead("Failed to find paths")
    \o (IF Len(IntermediateNodesInfo(Rows(b, es, G), sourceNodeId,
                                     destinationNodeId)) = 0
        THEN <<>> ELSE OneRead("Failed to find paths"))

\* candidatesWithQuery of execute(), when the reads before it are fulfilled.
Ranked(b, ns, es, G, nodeId, query, nodeType, edgeType, k) ==
  LET neighborIds == getKHopNeighborIds(b, es, G, nodeId, Hops(k), edgeType,
                                        "false").value
      fetched == getNodesByIds(b, ns, G, neighborIds, "false").value
      candidates == IF Truthy(nodeType)
                    THEN SelectSeq(fetched, LAMBDA c : c.type = nodeType)
                    ELSE fetched
  IN CandidatesWithQuery(candidates, query)

\* The reads of execute(): none when the arguments are rejected; the main
\* node; the neighbor ids; the candidates unless there is no neighbor id; and
\* for 1 hop the edge lookups of all ranked candidates at once.
SurroundingsReads(b, ns, es, G, nodeId, query, nodeType, edgeType, k) ==
  LET hops == Hops(k)
      mainNodes == getNodesByIds(b, ns, G, <<nodeId>>, "false").value
      neighborIds == getKHopNeighborIds(b, es, G, nodeId, hops, edgeType,
                                        "false").value
      ranked == Ranked(b, ns, es, G, nodeId, query, nodeType, edgeType, k)
  IN IF (hops # 1 /\ hops # 2) \/ (hops = 2 /\ Truthy(edgeType)) THEN <<>>
     ELSE IF Len(mainNodes) = 0 THEN OneRead("Failed to get nodes by ids")
     ELSE OneRead("Failed to get nodes by ids")
            \o KHopReads(b, es, G, nodeId, hops, edgeType)
            \o (IF Len(neighborIds) = 0 THEN <<>>
                ELSE OneRead("Failed to get nodes by ids"))
            \o (IF hops = 1 /\ Len(ranked) > 0
                THEN <<[i \in 1..Len(ranked) |->
                          "Failed to get edges between nodes"]>>
                ELSE <<>>)

\* The call c begins: it issues the reads of its first stage, or ends at once
\* when it reads nothing.  result is what it returns if every read is fulfilled.
Begin(c, stages, result) ==
  /\ call' = c @@ [phase |-> IF Len(stages) = 0 THEN "done" ELSE "reading",
                   stages |-> stages, stage |-> 1, settled |-> {},
                   order |-> <<>>, rejected |-> FALSE, result |-> result,
                   issued |-> IF Len(stages) = 0 THEN 0 ELSE Len(stages[1])]
  /\ ret' = IF Len(stages) = 0 THEN result ELSE ret

BeginGetKHopNeighborIds ==
  /\ call = Idle
  /\ \E k \in {1, 2}, edgeType \in SurrEdgeTypes :
       Begin([op |-> "getKHopNeighborIds", G |-> <<1>>, nodeId |-> "a",
              k |-> k, edgeType |-> edgeType],
             KHopReads(backend, edges, <<1>>, "a", k, edgeType),
             getKHopNeighborIds(backend, edges, <<1>>, "a", k, edgeType, "false"))
  /\ UNCHANGED <<backend, nodes, edges>>

BeginFindPaths ==
  /\ call = Idle
  /\ \E destinationNodeId \in AwaitDestinations :
       Begin([op |-> "findPaths", G |-> <<1>>, sourceNodeId |-> "a",
              destinationNodeId |-> destinationNodeId],
             FindPathsReads(backend, edges, <<1>>, "a", destinationNodeId),
             findPaths(backend, nodes, edges, <<1>>, "a", destinationNodeId,
                       "false"))
  /\ UNCHANGED <<backend, nodes, edges>>

BeginSearchSurroundings ==
  /\ call = Idle
  /\ \E query \in AwaitQueries, edgeType \in SurrEdgeTypes, k \in AwaitKs :
       Begin([op |-> "searchSurroundings", G |-> <<1>>, nodeId |-> "a",
              query |-> query, nodeType |-> Null, edgeType |-> edgeType,
              k |-> k],
             SurroundingsReads(backend, nodes, edges, <<1>>, "a", query, Null,
                               edgeType, k),
             searchSurroundings(backend, nodes, edges, <<1>>, "a", query, Null,
                                edgeType, k, "false"))
  /\ UNCHANGED <<backend, nodes, edges>>

Reading == call.op # "idle" /\ call.phase = "reading"

Unsettled == (1..Len(call.stages[call.stage])) \ call.settled

\* What the call returns after its last read, settled in the given order.
Finish(c, order) ==
  IF c.op = "searchSurroundings" /\ c.result.status = "ok" /\ Hops(c.k) = 1
  THEN Ok([mainNode |-> c.result.value.mainNode,
           neighbors |-> PromiseAll(c.result.value.neighbors, order)])
  ELSE c.result

\* A read is fulfilled.  When it was the last of its stage the call goes on to
\* issue the reads of the next stage, or returns.
ReadFulfils ==
  /\ Reading
  /\ \E i \in Unsettled :
       LET settled == call.settled \cup {i}
           order == Append(call.order, i)
       IN IF settled # 1..Len(call.stages[call.stage])
          THEN /\ call' = [call EXCEPT !.settled = settled, !.order = order]
               /\ ret' = ret
          ELSE IF call.stage = Len(call.stages)
          THEN /\ call' = [call EXCEPT !.phase = "done", !.settled = settled,
                                        !.order = order]
               /\ ret' = Finish(call, order)
          ELSE /\ call' = [call EXCEPT !.stage = @ + 1, !.settled = {},
                             !.order = <<>>,
                             !.issued = @ + Len(call.stages[call.stage + 1])]
               /\ ret' = ret
  /\ UNCHANGED <<backend, nodes, edges>>

\* A read is rejected: the await throws, or Promise.all rejects, and the call
\* ends; the reads still out are not waited for.
ReadRejects ==
  /\ Reading
  /\ \E i \in Unsettled, why \in StoreFailures :
       /\ call' = [call EXCEPT !.phase = "done", !.rejected = TRUE]
       /\ ret' = Rejection(backend, call.stages[call.stage][i], why)
  /\ UNCHANGED <<backend, nodes, edges>>

InitAwait ==
  /\ backend \in Backends
  /\ IsTable(edges, AwaitEdgeRows, MaxAwaitEdges)
  /\ nodes = EndpointNodes(edges)
  /\ StoreValid(backend, nodes, edges)
  /\ call = Idle
  /\ ret = Ok(<<>>)

NextAwait ==
  \/ BeginGetKHopNeighborIds
  \/ BeginFindPaths
  \/ BeginSearchSurroundings
  \/ ReadFulfils
  \/ ReadRejects

\* Every read that was issued settles: the store answers or the request's
\* timeout ends it.
SpecAwait ==
  InitAwait /\ [][NextAwait]_vars /\ WF_vars(ReadFulfils \/ ReadRejects)

\* ------------------------------------------ SpecFetch: getNodesByIds by reads
\* getNodesByIds taken read by read over the two-graph stores.

\* The graph lists fetched from: known graphs in both orders, and an unknown one.
FetchGraphLists == {<<1>>, <<2>>, <<1, 2>>, <<2, 1>>, <<3>>}

\* The reads of getNodesByIds: none for an empty id list or when building the
\* source throws, else the one SELECT.
NodesByIdsReads(b, G, nodeIds) ==
  IF Len(nodeIds) = 0 \/ ReadError(b, G, "false", "Failed to get nodes by ids") # ""
  THEN <<>>
  ELSE OneRead("Failed to get nodes by ids")

BeginGetNodesByIds ==
  /\ call = Idle
  /\ \E G \in FetchGraphLists, nodeIds \in IdListArgs :
       Begin([op |-> "getNodesByIds", G |-> G, nodeIds |-> nodeIds],
             NodesByIdsReads(backend, G, nodeIds),
             getNodesByIds(backend, nodes, G, nodeIds, "false"))
  /\ UNCHANGED <<backend, nodes, edges>>

NextFetch ==
  \/ BeginGetNodesByIds
  \/ ReadFulfils
  \/ ReadRejects

SpecFetch == InitTwoGraphs /\ [][NextFetch]_vars

\* ------------------------------------------- SpecTools: the agent's tool set
\* makeGraphTools builds the tools of an agent over the graphs it is given.

\* The tools that query a graph.
QueryingTools ==
  {"findNodesByName", "getNodeDetails", "getNeighborsByNodeId", "searchInSurroundings"}

\* The keys of the object makeGraphTools returns.
makeGraphTools(knowledgeGraphIds) ==
  {"listAvailableGraphs"}
    \cup (IF Len(knowledgeGraphIds) = 0 THEN {} ELSE QueryingTools)

\* The README's table "Available Tools".
ReadmeTools ==
  {"listAvailableGraphs", "findNodesByName", "getNodeDetails",
   "getNeighborsByNodeId", "searchInSurroundings", "findPaths"}

MakeGraphTools ==
  /\ call = Idle
  /\ \E G \in GraphLists :
       /\ call' = [op |-> "makeGraphTools", G |-> G]
       /\ ret' = Ok(makeGraphTools(G))
  /\ UNCHANGED <<backend, nodes, edges>>

NextTools == MakeGraphTools

SpecTools == InitTwoGraphs /\ [][NextTools]_vars

\* ----------------------------------- SpecLoader: the shared DuckDB instance
\* GraphLoader.getInstance taken await by await.  Every agent's createTransport
\* calls makeParquetGraphTools on the one loader, so several getInstance calls
\* can be under way at once.  Here call holds the callers (pc: where each is;
\* got: the instance it was handed, 0 before that) and ret.value the loader:
\* its instance field (0 for null) and the number of instances
\* DuckDBInstance.create has made; an instance is named by its number.

\* The calls of getInstance under way at once.
MaxCallers == 4

Callers == 1..MaxCallers

Loader == ret.value

\* if (!this.instance): the caller finds the field null and calls
\* DuckDBInstance.create(), or finds an instance and returns it.
CheckInstance(i) ==
  /\ call.pc[i] = "start"
  /\ IF Loader.instance = 0
     THEN call' = [call EXCEPT !.pc[i] = "creating"]
     ELSE call' = [call EXCEPT !.pc[i] = "done", !.got[i] = Loader.instance]
  /\ UNCHANGED <<backend, nodes, edges, ret>>

\* The awaited create() is fulfilled: this.instance = <the new instance>;
\* return this.instance.
CreateFulfils(i) ==
  /\ call.pc[i] = "creating"
  /\ LET made == Loader.created + 1
     IN /\ ret' = Ok([instance |-> made, created |-> made])
        /\ call' = [call EXCEPT !.pc[i] = "done", !.got[i] = made]
  /\ UNCHANGED <<backend, nodes, edges>>

\* The awaited create() is rejected: getInstance throws, the field stays as it is.
CreateRejects(i) ==
  /\ call.pc[i] = "creating"
  /\ call' = [call EXCEPT !.pc[i] = "failed"]
  /\ UNCHANGED <<backend, nodes, edges, ret>>

InitLoader ==
  /\ backend = "parquet"
  /\ nodes = <<>>
  /\ edges = <<>>
  /\ call = [op |-> "getInstance", pc |-> [i \in Callers |-> "start"],
             got |-> [i \in Callers |-> 0]]
  /\ ret = Ok([instance |-> 0, created |-> 0])

NextLoader ==
  \E i \in Callers :
    \/ CheckInstance(i)
    \/ CreateFulfils(i)
    \/ CreateRejects(i)

SpecLoader == InitLoader /\ [][NextLoader]_vars

\* --------------------------------------- SpecExport: scripts/export-data.ts
\* The export script taken await by await.  call holds the running process:
\* which run it is, the graph and the step it is at, and its in-memory progress
\* object; ret.value holds the data directory, one entry per graph: the
\* progress file, the two parquet files and graph.json.  The process can be
\* interrupted at every await and started again.

\* The knowledge graphs of the exported database.
MaxExportGraphs == 2

\* The runs of the script: the first and the restarts.
MaxRuns == 3

ExportGraphs == 1..MaxExportGraphs

emptyProgress == [nodesComplete |-> FALSE, edgesComplete |-> FALSE]

\* A progress file that is missing or does not parse.
Unreadable == [readable |-> FALSE, nodesComplete |-> FALSE, edgesComplete |-> FALSE]

\* loadProgress trusting a file it cannot read.
loadProgressAssumesDone(file) == [nodesComplete |-> TRUE, edgesComplete |-> TRUE]

\* loadProgress: the parsed file, or emptyProgress when reading or parsing throws.
loadProgress(file) ==
  IF file.readable
  THEN [nodesComplete |-> file.nodesComplete, edgesComplete |-> file.edgesComplete]
  ELSE emptyProgress

FlagOf(step) == IF step = "nodes" THEN "nodesComplete" ELSE "edgesComplete"

DataDir == ret.value

Stopped ==
  [op |-> "export", run |-> 0, graph |-> 0, step |-> "none", phase |-> "stopped",
   progress |-> emptyProgress]

\* The process is running: between main() and its end or its interruption.
Running == call.phase # "stopped" /\ call.phase # "done"

\* The run after the step it is at: the edges of the graph, the next graph, or
\* the end of main().
Advance(c) ==
  IF c.step = "nodes" THEN [c EXCEPT !.step = "edges", !.phase = "check"]
  ELSE IF c.graph = MaxExportGraphs
  THEN [c EXCEPT !.graph = 0, !.step = "none", !.phase = "done"]
  ELSE [c EXCEPT !.graph = @ + 1, !.step = "load", !.phase = "check"]

\* `bun scripts/export-data.ts`, for the first time or again.
StartRun ==
  /\ ~Running
  /\ call.run < MaxRuns
  /\ call' = [Stopped EXCEPT !.run = call.run + 1, !.graph = 1, !.step = "load",
                             !.phase = "check"]
  /\ UNCHANGED <<backend, nodes, edges, ret>>

\* The head of the loop body: loadProgress, `continue` when both flags are
\* set, else graph.json is written.
LoadProgress ==
  /\ Running /\ call.step = "load"
  /\ LET progress == loadProgress(DataDir[call.graph].progress)
     IN IF progress.nodesComplete /\ progress.edgesComplete
        THEN /\ call' = Advance([call EXCEPT !.step = "edges"])
             /\ ret' = ret
        ELSE /\ call' = [call EXCEPT !.step = "nodes", !.progress = progress]
             /\ ret' = Ok([DataDir EXCEPT ![call.graph].graphJson = TRUE])
  /\ UNCHANGED <<backend, nodes, edges>>

\* if (progress.<step>Complete): "already exported, skipping".
SkipStep ==
  /\ Running /\ call.step # "load" /\ call.phase = "check"
  /\ call.progress[FlagOf(call.step)]
  /\ call' = Advance(call)
  /\ UNCHANGED <<backend, nodes, edges, ret>>

\* else: the COPY ... TO '<step>.parquet' is sent and starts writing the file.
CopyBegins ==
  /\ Running /\ call.step # "load" /\ call.phase = "check"
  /\ ~call.progress[FlagOf(call.step)]
  /\ call' = [call EXCEPT !.phase = "copying"]
  /\ ret' = Ok([DataDir EXCEPT ![call.graph][call.step] = "partial"])
  /\ UNCHANGED <<backend, nodes, edges>>

\* The awaited COPY is done; progress.<step>Complete = true.
CopyFinishes ==
  /\ Running /\ call.phase = "copying"
  /\ call' = [call EXCEPT !.phase = "saving",
                          !.progress[FlagOf(call.step)] = TRUE]
  /\ ret' = Ok([DataDir EXCEPT ![call.graph][call.step] = "complete"])
  /\ UNCHANGED <<backend, nodes, edges>>

\* saveProgress: writeFile opens the progress file, which empties it ...
SaveTruncates ==
  /\ Running /\ call.phase = "saving"
  /\ call' = [call EXCEPT !.phase = "writing"]
  /\ ret' = Ok([DataDir EXCEPT ![call.graph].progress = Unreadable])
  /\ UNCHANGED <<backend, nodes, edges>>

\* ... and writes the JSON of the progress object.
SaveWrites ==
  /\ Running /\ call.phase = "writing"
  /\ call' = Advance(call)
  /\ ret' = Ok([DataDir EXCEPT ![call.graph].progress =
                  [readable |-> TRUE,
                   nodesComplete |-> call.progress.nodesComplete,
                   edgesComplete |-> call.progress.edgesComplete]])
  /\ UNCHANGED <<backend, nodes, edges>>

\* The process is killed, or a statement throws and main().catch exits.
Interrupt ==
  /\ Running
  /\ call' = [Stopped EXCEPT !.run = call.run]
  /\ UNCHANGED <<backend, nodes, edges, ret>>

InitExport ==
  /\ backend = "pg"
  /\ nodes = <<>>
  /\ edges = <<>>
  /\ call = Stopped
  /\ ret = Ok([g \in ExportGraphs |->
                 [progress |-> Unreadable, nodes |-> "none", edges |-> "none",
                  graphJson |-> FALSE]])

NextExport ==
  \/ StartRun
  \/ LoadProgress
  \/ SkipStep
  \/ CopyBegins
  \/ CopyFinishes
  \/ SaveTruncates
  \/ SaveWrites
  \/ Interrupt

SpecExport == InitExport /\ [][NextExport]_vars

\* ------------------------------- SpecRace: the two-hop reads on a changing store
\* getKHopNeighborIds(G, nodeId, 2) taken read by read while other clients of
\* the store insert and delete edges.  call keeps the locals of the function:
\* oneHopNeighbors, the position of the loop over it, and twoHopNeighbors.

\* The longest edge table of the changing store.
MaxRaceEdges == 2

RaceEdgeRows == EdgeRows({1}, {"a", "b", "c", "d"}, {"t"})

RaceNodes ==
  <<NodeRow(1, "a"), NodeRow(1, "b"), NodeRow(1, "c"), NodeRow(1, "d")>>

\* The loop body without the twoHopNeighborId !== nodeId test.
AddTwoHopsKeepsNode(twoHopNeighbors, neighborsOfNeighbor, nodeId, oneHopNeighbors) == Dedup(twoHopNeighbors \o SelectSeq(neighborsOfNeighbor, LAMBDA x : x \notin Range(oneHopNeighbors)))

\* One pass of the loop body: the ids of neighborsOfNeighbor that pass the
\* test are added to the Set twoHopNeighbors.
AddTwoHops(twoHopNeighbors, neighborsOfNeighbor, nodeId, oneHopNeighbors) ==
  Dedup(twoHopNeighbors \o
        SelectSeq(neighborsOfNeighbor, LAMBDA x :
          x # nodeId /\ x \notin Range(oneHopNeighbors)))

\* getKHopNeighborIds(G, nodeId, 2) is called and sends its first getNeighbors.
BeginTwoHops ==
  /\ call = Idle
  /\ call' = [op |-> "getKHopNeighborIds", G |-> <<1>>, nodeId |-> "a", k |-> 2,
              edgeType |-> Null, phase |-> "reading", at |-> 0,
              oneHopNeighbors |-> <<>>, twoHopNeighbors |-> <<>>]
  /\ UNCHANGED <<backend, nodes, edges, ret>>

\* The awaited getNeighbors answers from the store as it is now: the first
\* one gives oneHopNeighbors, each later one a pass of the loop; after the last
\* the function returns.
NeighborsRead ==
  /\ call.op = "getKHopNeighborIds" /\ call.phase = "reading"
  /\ LET from == IF call.at = 0 THEN call.nodeId ELSE call.oneHopNeighbors[call.at]
         read == getNeighbors(backend, edges, call.G, from, Null, "false").value
         oneHop == IF call.at = 0 THEN read ELSE call.oneHopNeighbors
         twoHop == IF call.at = 0 THEN <<>>
                   ELSE AddTwoHops(call.twoHopNeighbors, read, call.nodeId,
                                   call.oneHopNeighbors)
     IN IF call.at = Len(oneHop)
        THEN /\ call' = [call EXCEPT !.phase = "done", !.oneHopNeighbors = oneHop,
                                     !.twoHopNeighbors = twoHop]
             /\ ret' = Ok(oneHop \o twoHop)
        ELSE /\ call' = [call EXCEPT !.at = @ + 1, !.oneHopNeighbors = oneHop,
                                     !.twoHopNeighbors = twoHop]
             /\ ret' = ret
  /\ UNCHANGED <<backend, nodes, edges>>

\* Another client of the store inserts an edge row.
InsertEdge ==
  /\ Len(edges) < MaxRaceEdges
  /\ \E r \in RaceEdgeRows :
       /\ edges' = Append(edges, r)
       /\ StoreValid(backend, nodes, edges')
  /\ UNCHANGED <<backend, nodes, call, ret>>

\* Another client of the store deletes an edge row.
DeleteEdge ==
  /\ \E i \in 1..Len(edges) :
       edges' = SubSeq(edges, 1, i - 1) \o SubSeq(edges, i + 1, Len(edges))
  /\ UNCHANGED <<backend, nodes, call, ret>>

InitRace ==
  /\ backend \in Backends
  /\ nodes = RaceNodes
  /\ IsTable(edges, RaceEdgeRows, MaxRaceEdges)
  /\ StoreValid(backend, nodes, edges)
  /\ call = Idle
  /\ ret = Ok(<<>>)

NextRace ==
  \/ BeginTwoHops
  \/ NeighborsRead
  \/ InsertEdge
  \/ DeleteEdge

SpecRace == InitRace /\ [][NextRace]_vars

\* ================================================================ properties

Called(op) == call.op = op

Returned == call.op # "idle" /\ ret.status = "ok"

\* The edge rows stored in a graph of G.
EdgesIn(G) == {i \in 1..Len(edges) : edges[i].knowledgeGraphId \in Range(G)}

\* The node rows stored in a graph of G.
NodesIn(G) == {i \in 1..Len(nodes) : nodes[i].knowledgeGraphId \in Range(G)}

\* ----------------------------------------------------------------------- C1
\* The operations that return rows, and those that return node ids.
RowOps == {"searchNodesByName", "getNodesByIds", "getEdgesBetweenNodes"}

IdOps == {"getNeighbors", "getKHopNeighborIds"}

\* C1: every node record and edge record a call returns has its
\* knowledgeGraphId in the list G the call was made with, and every id of a
\* returned neighbor list is an endpoint of an edge stored in a graph of G;
\* for any G, the empty list included, in both stores.
C1_ResultsStayInAuthorizedGraphs ==
  Returned =>
    CASE call.op \in RowOps ->
           \A i \in 1..Len(ret.value) :
             ret.value[i].knowledgeGraphId \in Range(call.G)
      [] call.op \in IdOps ->
           \A i \in 1..Len(ret.value) : \E j \in EdgesIn(call.G) :
             ret.value[i] \in {edges[j].from, edges[j].to}
      [] call.op = "findPaths" ->
           \A i \in 1..Len(ret.value) : \A l \in 1..2 :
             /\ ret.value[i].legs[l].tailNode.knowledgeGraphId \in Range(call.G)
             /\ ret.value[i].legs[l].headNode.knowledgeGraphId \in Range(call.G)
      [] OTHER -> TRUE

\* ----------------------------------------------------------------------- C2
\* C2 as stated: getKHopNeighborIds called with k = 2 and a non-empty edgeType
\* always fails.
C2_KHopWithEdgeTypeFails ==
  (Called("getKHopNeighborIds") /\ call.k = 2 /\ Truthy(call.edgeType))
    => ret.status = "error"

\* C2 as amended: the failure for k = 2 with a non-empty edgeType is raised by
\* searchInSurroundings, for every store content, graph list and node id, with
\* the message that names the combination.
C2_SurroundingsRejectsEdgeTypeAtTwoHops ==
  (Called("searchSurroundings") /\ call.k = "2" /\ Truthy(call.edgeType))
    => ret = Err("Filtering by edge type is not supported when k=2")

\* searchInSurroundings rejected k = 2 with an edgeType for a node that exists
\* and has a neighbor over an edge of that type.
C2_Witness ==
  /\ Called("searchSurroundings") /\ call.k = "2" /\ call.edgeType = "t"
  /\ call.nodeId = "a"
  /\ \E i \in NodesIn(call.G) : nodes[i].id = "a"
  /\ \E j \in EdgesIn(call.G) :
       edges[j].from = "a" /\ edges[j].to = "b" /\ edges[j].type = "t"
  /\ ret.status = "error"

\* ----------------------------------------------------------------------- C3
\* C3: getKHopNeighborIds called with k = 2 and a non-empty edgeType returns
\* the empty list, for every store content and every node id.
C3_KHopWithEdgeTypeIsEmpty ==
  (Called("getKHopNeighborIds") /\ call.k = 2 /\ Truthy(call.edgeType))
    => ret = Ok(<<>>)

\* The empty list came back although the node has a neighbor over an edge of
\* the requested type in a graph of G.
C3_Witness ==
  /\ Called("getKHopNeighborIds") /\ call.k = 2 /\ call.edgeType = "t"
  /\ \E j \in EdgesIn(call.G) :
       /\ edges[j].type = "t"
       /\ call.nodeId \in {edges[j].from, edges[j].to}
       /\ edges[j].from # edges[j].to
  /\ ret = Ok(<<>>)

\* ----------------------------------------------------------------------- C4
\* The edges of the graphs of G that touch n and pass the edgeType filter; an
\* absent or empty edgeType filters nothing.
Touching(G, n, edgeType) ==
  {j \in EdgesIn(G) : /\ n \in {edges[j].from, edges[j].to}
                      /\ (Truthy(edgeType) => edges[j].type = edgeType)}

\* C4: getKHopNeighborIds with k = 1 returns exactly what getNeighbors returns
\* for the same graph ids, node id and edgeType; what both return is the
\* duplicate-free list of the ids m with an edge n->m or m->n in a graph of G
\* (of type edgeType when one is given), and n itself is in it if and only if
\* such an edge is a self-loop on n.
C4_OneHopIsGetNeighbors ==
  /\ (Called("getKHopNeighborIds") /\ call.k = 1) =>
       \E e \in InArrayEmpty :
         ret = getNeighbors(backend, edges, call.G, call.nodeId, call.edgeType, e)
  /\ ((Called("getNeighbors") \/ (Called("getKHopNeighborIds") /\ call.k = 1))
        /\ ret.status = "ok") =>
       LET hit == Touching(call.G, call.nodeId, call.edgeType)
       IN /\ Range(ret.value) = {OtherEnd(edges[j], call.nodeId) : j \in hit}
          /\ Cardinality(Range(ret.value)) = Len(ret.value)
          /\ (call.nodeId \in Range(ret.value)
                <=> \E j \in hit : edges[j].from = edges[j].to)

\* A k = 1 call with an edgeType that returned only the node itself (a self-loop
\* of that type), leaving out the neighbor over an edge of another type.
C4_Witness ==
  /\ Called("getKHopNeighborIds") /\ call.k = 1 /\ call.edgeType = "t"
  /\ ret.status = "ok" /\ Len(ret.value) = 1
  /\ call.nodeId \in Range(ret.value)
  /\ \E j \in EdgesIn(call.G) :
       /\ call.nodeId \in {edges[j].from, edges[j].to}
       /\ edges[j].from # edges[j].to
       /\ edges[j].type = "u"

\* ------------------------------------------------------------------ C5, C6
\* The ids one edge away from n in the graphs of G.
Adjacent(G, n) == {OtherEnd(edges[j], n) : j \in Touching(G, n, Null)}

\* The ids getKHopNeighborIds(n, 2) may add to the one-hop ids: one edge away
\* from a one-hop neighbor, not n, not a one-hop neighbor.
TwoAway(G, n) ==
  {w \in UNION {Adjacent(G, m) : m \in Adjacent(G, n)} :
     w # n /\ w \notin Adjacent(G, n)}

TwoHopCall == Called("getKHopNeighborIds") /\ call.k = 2 /\ ret.status = "ok"

\* C5: the result of getKHopNeighborIds(n, 2) contains every id of the k = 1
\* result; what it lists after them holds no id of the k = 1 result, and each
\* such id is a neighbor of some k = 1 neighbor and is different from n.
C5_TwoHopsExtendOneHop ==
  TwoHopCall =>
    LET one == Adjacent(call.G, call.nodeId)
        added == {i \in 1..Len(ret.value) : i > Cardinality(one)}
    IN /\ one \subseteq Range(ret.value)
       /\ \A i \in added :
            /\ ret.value[i] \notin one
            /\ ret.value[i] # call.nodeId
            /\ \E m \in one : ret.value[i] \in Adjacent(call.G, m)

\* A k = 2 call that added an id, from a node whose one-hop neighbors are also
\* joined to each other (so the expansion met both the node and a one-hop id).
C5_Witness ==
  /\ TwoHopCall
  /\ Len(ret.value) > Cardinality(Adjacent(call.G, call.nodeId))
  /\ \E x, y \in Adjacent(call.G, call.nodeId) :
       x # y /\ x # call.nodeId /\ y # call.nodeId /\ y \in Adjacent(call.G, x)

\* The position of the first row of the one-graph edge table that joins n to m
\* (0 when none does).
FirstRow(n, m) ==
  IF \E j \in 1..Len(edges) : {edges[j].from, edges[j].to} = {n, m}
  THEN CHOOSE j \in 1..Len(edges) :
         /\ {edges[j].from, edges[j].to} = {n, m}
         /\ \A i \in 1..(j - 1) : {edges[i].from, edges[i].to} # {n, m}
  ELSE 0

\* When the expansion from n first meets w: the earliest one-hop neighbor m
\* joined to w (by m's place in the one-hop order), then w's place among m's
\* neighbors; both places are first rows, so one number orders the meetings.
Discovery(n, w) ==
  LET via == {m \in Adjacent(<<1>>, n) : w \in Adjacent(<<1>>, m)}
      m == CHOOSE x \in via : \A y \in via : FirstRow(n, x) <= FirstRow(n, y)
  IN FirstRow(n, m) * (Len(edges) + 1) + FirstRow(m, w)

\* C6: the list getKHopNeighborIds returns has no duplicate ids; for k = 2 it
\* is the k = 1 list N1 in store order followed by exactly the two-hop-only
\* ids, each once, ordered by first discovery while going through N1 in order
\* and through each member's neighbors in store order.
C6_NeighborListOrder ==
  (Called("getKHopNeighborIds") /\ ret.status = "ok") =>
    LET n == call.nodeId
        one == Cardinality(Adjacent(call.G, n))
        v == ret.value
    IN /\ \A i, j \in 1..Len(v) : v[i] = v[j] => i = j
       /\ {v[i] : i \in 1..Len(v)} =
            Adjacent(call.G, n) \cup (IF call.k = 2 THEN TwoAway(call.G, n) ELSE {})
       /\ \A i \in 1..Len(v) : i <= one => v[i] \in Adjacent(call.G, n)
       /\ \A i, j \in 1..Len(v) :
            (i < j /\ j <= one) => FirstRow(n, v[i]) < FirstRow(n, v[j])
       /\ \A i, j \in 1..Len(v) :
            (one < i /\ i < j) => Discovery(n, v[i]) < Discovery(n, v[j])

\* A k = 2 call whose two-hop id d is joined to both one-hop neighbors b and c
\* and came back once, after them.
C6_Witness ==
  /\ TwoHopCall
  /\ ret.value = <<"b", "c", "d">>
  /\ "d" \in Adjacent(call.G, "b") /\ "d" \in Adjacent(call.G, "c")

\* -------------------------------------------------------------- C7, C8, C9
\* id has a node record in a graph of G.
HasNode(G, id) == \E i \in NodesIn(G) : nodes[i].id = id

\* The edge rows of the graphs of G that join x and m and whose type passes
\* Typed.
Joining(G, x, m, Typed(_)) ==
  {j \in EdgesIn(G) : {edges[j].from, edges[j].to} = {x, m} /\ Typed(edges[j].type)}

NotNull(t) == t # Null

\* C7: findPaths(G, A, B) returns the empty list and does not fail when A or
\* B has no node record in the graphs G, whatever edges the store holds.
C7_MissingEndpointGivesNoPaths ==
  (Called("findPaths")
     /\ (~HasNode(call.G, call.sourceNodeId)
           \/ ~HasNode(call.G, call.destinationNodeId)))
    => ret = Ok(<<>>)

\* The destination has no node record although edges mention it: the source
\* reaches it over an intermediate node, both edges typed, both other nodes on
\* record.
C7_Witness ==
  /\ Called("findPaths") /\ call.sourceNodeId = "a" /\ call.destinationNodeId = "b"
  /\ HasNode(call.G, "a") /\ HasNode(call.G, "c") /\ ~HasNode(call.G, "b")
  /\ Joining(call.G, "a", "c", Truthy) # {}
  /\ Joining(call.G, "c", "b", Truthy) # {}
  /\ ret = Ok(<<>>)

\* A leg without its direction: the two nodes and the edge type.
Undirected(leg) == [ends |-> {leg.tailNode, leg.headNode}, type |-> leg.edgeType]

AsFound(path) == <<Undirected(path.legs[1]), Undirected(path.legs[2])>>

Reversed(path) == <<Undirected(path.legs[2]), Undirected(path.legs[1])>>

\* How many entries of paths F maps to x.
Occurrences(paths, F(_), x) == Cardinality({i \in 1..Len(paths) : F(paths[i]) = x})

\* C8: findPaths(G, A, B) and findPaths(G, B, A) return the same number of
\* paths, and the paths of the one, leg order reversed and each leg taken as
\* its unordered node pair with its edge type, are the same multiset as the
\* paths of the other.
C8_FindPathsSymmetric ==
  (Called("findPaths") /\ ret.status = "ok") =>
    \A e \in InArrayEmpty :
      LET back == findPaths(backend, nodes, edges, call.G,
                            call.destinationNodeId, call.sourceNodeId, e)
      IN /\ back.status = "ok"
         /\ Len(back.value) = Len(ret.value)
         /\ \A i \in 1..Len(ret.value) :
              Occurrences(ret.value, AsFound, AsFound(ret.value[i]))
                = Occurrences(back.value, Reversed, AsFound(ret.value[i]))

\* Paths between two different nodes whose two legs differ in edge type.
C8_Witness ==
  /\ Called("findPaths") /\ call.sourceNodeId # call.destinationNodeId
  /\ ret.status = "ok" /\ Len(ret.value) >= 2
  /\ \E i \in 1..Len(ret.value) :
       ret.value[i].legs[1].edgeType # ret.value[i].legs[2].edgeType

\* The paths of the result that go through m.
Through(m) == {i \in 1..Len(ret.value) : ret.value[i].legs[1].headNode.id = m}

\* The count C9 gives for the intermediate node m, for a reading Typed of
\* "the edge has a type".
PathNodeIds == {"a", "b", "c"}

PathCountIs(Typed(_)) ==
  (Called("findPaths") /\ ret.status = "ok"
     /\ HasNode(call.G, call.sourceNodeId)
     /\ HasNode(call.G, call.destinationNodeId)) =>
    \A m \in PathNodeIds :
      Cardinality(Through(m)) =
        IF HasNode(call.G, m)
        THEN Cardinality(Joining(call.G, call.sourceNodeId, m, Typed))
               * Cardinality(Joining(call.G, m, call.destinationNodeId, Typed))
        ELSE 0

\* C9 as stated: with both endpoints on record, the number of paths through
\* an intermediate node m on record is the number of edges between A and m
\* with a non-null type times the number of edges between m and B with a
\* non-null type.
C9_OnePathPerNonNullEdgePair == PathCountIs(NotNull)

\* C9 as amended: the same count over the edges whose type is neither null nor
\* the empty string; no path goes through a node without a record.
C9_OnePathPerTypedEdgePair == PathCountIs(Truthy)

\* Two edge types on the source side and one on the destination side gave two
\* paths through c.
C9_Witness ==
  /\ Called("findPaths") /\ call.sourceNodeId = "a" /\ call.destinationNodeId = "b"
  /\ ret.status = "ok" /\ Len(ret.value) = 2
  /\ Through("c") = {1, 2}
  /\ ret.value[1].legs[1].edgeType # ret.value[2].legs[1].edgeType
  /\ ret.value[1].legs[2].edgeType = ret.value[2].legs[2].edgeType

\* ---------------------------------------------------------------------- C10
MainNodeAbsent ==
  Called("searchSurroundings") /\ ~HasNode(call.G, call.nodeId)

ValidKs == {Null, "1", "2"}

\* k is absent, 1 or 2, and no edgeType comes with k = 2.
ArgumentsValid ==
  /\ call.k \in ValidKs
  /\ ~(call.k = "2" /\ Truthy(call.edgeType))

\* G is a non-empty list of graph ids the store knows.
GraphsReadable == Len(call.G) > 0 /\ Range(call.G) \subseteq KnownGraphs

\* C10 as stated, for graph lists the store can read: searchSurroundings fails
\* with NodeNotFound whenever the main node id has no node record in the given
\* graphs.
C10_AbsentMainNodeIsNodeNotFound ==
  (MainNodeAbsent /\ GraphsReadable) => ret = Err("Node not found")

\* C10 as amended: whenever the main node id has no node record in the given
\* graphs searchSurroundings fails and returns no response; the failure is
\* NodeNotFound when the arguments are valid and G is a non-empty list of known
\* graph ids (invalid arguments are rejected first, and a graph list the store
\* cannot read fails the lookup itself).
C10_AbsentMainNodeFails ==
  MainNodeAbsent =>
    /\ ret.status = "error"
    /\ (ArgumentsValid /\ GraphsReadable) => ret = Err("Node not found")

\* The main node has a record in graph 2 and an edge there, the call named
\* graph 1 only, and it failed with NodeNotFound.
C10_Witness ==
  /\ MainNodeAbsent /\ call.G = <<1>> /\ call.nodeId = "a"
  /\ HasNode(<<2>>, "a")
  /\ Touching(<<2>>, "a", Null) # {}
  /\ ArgumentsValid
  /\ ret = Err("Node not found")

\* ---------------------------------------------------------------------- C11
\* C11: searchSurroundings fails with the invalid-argument error when k is
\* neither 1 nor 2, and when k = 2 comes with a non-empty edgeType; it does so
\* for every store content and graph list, also when the main node does not
\* exist, and never answers such a call with neighbors.
C11_InvalidArgumentsRejected ==
  Called("searchSurroundings") =>
    /\ call.k \notin ValidKs => ret = Err("k must be 1 or 2")
    /\ (call.k = "2" /\ Truthy(call.edgeType)) =>
         ret = Err("Filtering by edge type is not supported when k=2")

\* k = 3, on a main node that exists and has a neighbor, was rejected.
C11_Witness ==
  /\ Called("searchSurroundings") /\ call.k = "3" /\ call.nodeId = "a"
  /\ HasNode(call.G, "a")
  /\ Touching(call.G, "a", Null) # {}
  /\ ret = Err("k must be 1 or 2")

\* ------------------------------------------------------------------ C12, C13
SurroundingsAnswered == Called("searchSurroundings") /\ ret.status = "ok"

\* The ids k hops from the main node of the call, under its edgeType.
HopIds ==
  IF call.k = "2"
  THEN Adjacent(call.G, call.nodeId) \cup TwoAway(call.G, call.nodeId)
  ELSE {OtherEnd(edges[j], call.nodeId) :
          j \in Touching(call.G, call.nodeId, call.edgeType)}

NodeFieldNames == {"knowledgeGraphId", "id", "name", "type", "properties"}

\* The node fields of a returned neighbor.
NodeFields(v) ==
  [f \in NodeFieldNames |-> v[f]]

\* The node rows of the graphs of the call, in the order a read returns them.
NodesRead == Rows(backend, nodes, call.G)

\* C12: with the query absent or the empty string, the neighbors are exactly
\* the node records fetched for the k-hop neighbor ids that pass the nodeType
\* filter, in fetch order: none dropped, added or reordered.
C12_NoQueryKeepsFetchOrder ==
  (SurroundingsAnswered /\ ~TruthyText(call.query)) =>
    LET kept == SelectSeq(NodesRead, LAMBDA n :
                  /\ n.id \in HopIds
                  /\ (Truthy(call.nodeType) => n.type = call.nodeType))
        got == ret.value.neighbors
    IN [i \in 1..Len(got) |-> NodeFields(got[i])] = kept

\* An empty-string query returned two neighbors, one of them without a name,
\* while the nodeType filter was off.
C12_Witness ==
  /\ SurroundingsAnswered /\ call.query = <<>>
  /\ Len(ret.value.neighbors) = 2
  /\ \E i \in 1..2 : ret.value.neighbors[i].name = NullText

RankedCall == SurroundingsAnswered /\ TruthyText(call.query)

\* The tokens of a query as the specification words them: every hyphen a
\* space, lower case, cut at white space, no stop-words; each token once.
SpecTokens(query) ==
  LET spaced == [i \in 1..Len(query) |->
                   IF query[i] = "-" THEN " " ELSE query[i]]
  IN {w \in Range(Split(ToLowerCase(spaced), " ")) :
        w # <<>> /\ w \notin STOPWORDS}

\* v matches the query of the call by its name.
IsNameMatch(v) ==
  v.name # NullText /\ Includes(ToLowerCase(v.name), ToLowerCase(call.query))

\* The specification's relevance of v: the distinct tokens found in its
\* properties text.
SpecRelevance(v) ==
  IF TruthyText(v.properties)
  THEN Cardinality({w \in SpecTokens(call.query) :
                      Includes(ToLowerCase(v.properties), w)})
  ELSE 0

\* The place of v in the fetch order.
FetchPlace(v) == CHOOSE p \in 1..Len(NodesRead) : NodesRead[p].id = v.id

\* C14: with a query, the name matches come first in fetch order, then the
\* property matches by descending relevance, equal relevance in fetch order;
\* candidates that are neither are absent, and every match is present.
C14_RankedOrder ==
  RankedCall =>
    LET got == ret.value.neighbors
        Before(x, y) ==
          \/ IsNameMatch(x) /\ ~IsNameMatch(y)
          \/ /\ IsNameMatch(x) /\ IsNameMatch(y)
             /\ FetchPlace(x) < FetchPlace(y)
          \/ /\ ~IsNameMatch(x) /\ ~IsNameMatch(y)
             /\ \/ SpecRelevance(x) > SpecRelevance(y)
                \/ /\ SpecRelevance(x) = SpecRelevance(y)
                   /\ FetchPlace(x) < FetchPlace(y)
    IN /\ \A i \in 1..Len(got) :
            IsNameMatch(got[i]) \/ SpecRelevance(got[i]) > 0
       /\ \A i, j \in 1..Len(got) : i < j => Before(got[i], got[j])
       /\ \A p \in 1..Len(NodesRead) :
            LET n == NodesRead[p]
            IN (/\ n.id \in HopIds
                /\ Truthy(call.nodeType) => n.type = call.nodeType
                /\ IsNameMatch(n) \/ SpecRelevance(n) > 0)
                 => \E i \in 1..Len(got) : got[i].id = n.id

\* C15: the tokens used for property matching are the query with every hyphen
\* replaced by a space, lower-cased, cut at white space, stop-words removed: no
\* token holds a hyphen, none is empty, none is a stop-word.
C15_TokensAreClean ==
  RankedCall =>
    LET queryWords == QueryWords(call.query)
    IN /\ Range(queryWords) = SpecTokens(call.query)
       /\ \A i \in 1..Len(queryWords) :
            /\ queryWords[i] # <<>>
            /\ \A j \in 1..Len(queryWords[i]) : queryWords[i][j] # "-"
            /\ queryWords[i] \notin STOPWORDS

\* C16: the relevance of a property match is the number of distinct query
\* tokens that occur in the candidate's properties text, whatever their case,
\* a repeated token counted once; no property match has relevance 0.
C16_RelevanceCountsDistinctTokens ==
  (RankedCall /\ call.k # "2") =>
    \A i \in 1..Len(ret.value.neighbors) :
      LET v == ret.value.neighbors[i]
      IN "relevance" \in DOMAIN v =>
           /\ v.relevance > 0
           /\ v.relevance =
                Cardinality({w \in Range(QueryWords(call.query)) :
                               Includes(ToLowerCase(v.properties), w)})

\* The explanation text of a property match: "<n> match: w" or
\* "<n> matches: w1, w2".
ExplanationText(n, words) ==
  NumberText(n)
    \o (IF n = 1 THEN <<" ", "m", "a", "t", "c", "h", ":", " ">>
        ELSE <<" ", "m", "a", "t", "c", "h", "e", "s", ":", " ">>)
    \o Join(words, <<",", " ">>)

\* The query tokens found in the properties of v, as the ranking lists them.
WordsFound(v) ==
  SelectSeq(QueryWords(call.query),
            LAMBDA w : Includes(ToLowerCase(v.properties), w))

Explained(v) ==
  /\ "matchExplanation" \in DOMAIN v
  /\ v.matchExplanation = ExplanationText(Len(WordsFound(v)), WordsFound(v))

\* C17 as stated: for k 1 and for k 2, every property match carries its
\* matchExplanation and no name match carries one.
C17_EveryPropertyMatchExplained ==
  RankedCall =>
    \A i \in 1..Len(ret.value.neighbors) :
      LET v == ret.value.neighbors[i]
      IN IF IsNameMatch(v) THEN "matchExplanation" \notin DOMAIN v
         ELSE Explained(v)

\* C17: with a query and k = 1, every property match carries matchExplanation
\* "<n> match: <token>" for one matched token and "<n> matches: <tokens joined
\* by ', '>" otherwise, n being its relevance, and no name match carries one;
\* with k = 2 no neighbor carries a matchExplanation.
C17_OneHopPropertyMatchesExplained ==
  RankedCall =>
    \A i \in 1..Len(ret.value.neighbors) :
      LET v == ret.value.neighbors[i]
      IN IF call.k = "2" \/ IsNameMatch(v)
         THEN "matchExplanation" \notin DOMAIN v
         ELSE /\ Explained(v)
              /\ v.relevance = Len(WordsFound(v))
              /\ v.appearingWords = WordsFound(v)

\* A 1-hop search returned a name match without an explanation and, after
\* it, a property match explained as "1 match: t".
C17_Witness ==
  /\ RankedCall /\ call.k # "2" /\ Len(ret.value.neighbors) = 2
  /\ IsNameMatch(ret.value.neighbors[1])
  /\ "matchExplanation" \notin DOMAIN ret.value.neighbors[1]
  /\ ~IsNameMatch(ret.value.neighbors[2])
  /\ ret.value.neighbors[2].matchExplanation =
       <<"1", " ", "m", "a", "t", "c", "h", ":", " ", "t">>

\* ----------------------------------------------------------------------- C18
\* The edge rows of the graphs of the call that join the main node and c, in
\* store order.
EdgesJoining(c) ==
  SelectSeq(Rows(backend, edges, call.G), LAMBDA r :
    \/ r.from = call.nodeId /\ r.to = c
    \/ r.from = c /\ r.to = call.nodeId)

EdgeTypes(rs) == [i \in 1..Len(rs) |-> rs[i].type]

\* C18: with k = 1 every neighbor c carries edgesToCandidate, the types in
\* store order, duplicates kept, of the edges between the main node and c that
\* leave the main node, and edgesFromCandidate, the types of those that arrive
\* at the main node; with k = 2 no neighbor carries either list.
C18_EdgeListsByDirection ==
  SurroundingsAnswered =>
    \A i \in 1..Len(ret.value.neighbors) :
      LET v == ret.value.neighbors[i]
      IN IF call.k = "2"
         THEN EdgeListFields \cap DOMAIN v = {}
         ELSE /\ v.edgesToCandidate =
                   EdgeTypes(SelectSeq(EdgesJoining(v.id),
                                       LAMBDA r : r.from = call.nodeId))
              /\ v.edgesFromCandidate =
                   EdgeTypes(SelectSeq(EdgesJoining(v.id),
                                       LAMBDA r : r.to = call.nodeId))

\* A 1-hop neighbor other than the main node is joined to it by one edge in
\* each direction, of different types.
C18_Witness ==
  /\ SurroundingsAnswered /\ call.k # "2"
  /\ \E i \in 1..Len(ret.value.neighbors) :
       /\ ret.value.neighbors[i].id # call.nodeId
       /\ Len(ret.value.neighbors[i].edgesToCandidate) = 1
       /\ Len(ret.value.neighbors[i].edgesFromCandidate) = 1
       /\ ret.value.neighbors[i].edgesToCandidate
            # ret.value.neighbors[i].edgesFromCandidate

\* ------------------------------------------------------------------ C19, C20
Ended == call.op # "idle" /\ call.phase = "done"

\* C19: in a 1-hop searchSurroundings the edge lookups of the candidates are
\* out together, and for every order they complete in, the neighbors returned
\* are the ranked candidates in ranked order, each with the edge lists of the
\* lookup made for it.
C19_LookupsReassembledInRankedOrder ==
  (/\ Called("searchSurroundings") /\ Ended /\ ~call.rejected
   /\ ret.status = "ok" /\ Hops(call.k) = 1) =>
    LET ranked == Ranked(backend, nodes, edges, call.G, call.nodeId,
                         call.query, call.nodeType, call.edgeType, call.k)
        got == ret.value.neighbors
    IN /\ Len(got) = Len(ranked)
       /\ \A i \in 1..Len(got) :
            /\ NodeFields(got[i]) = NodeFields(ranked[i])
            /\ got[i].edgesToCandidate =
                 EdgeTypes(SelectSeq(EdgesJoining(ranked[i].id),
                                     LAMBDA r : r.from = call.nodeId))
            /\ got[i].edgesFromCandidate =
                 EdgeTypes(SelectSeq(EdgesJoining(ranked[i].id),
                                     LAMBDA r : r.to = call.nodeId))

\* Two lookups were out at once and the second candidate's completed first;
\* the two candidates have different edge lists.
C19_Witness ==
  /\ Called("searchSurroundings") /\ Ended /\ ret.status = "ok"
  /\ Len(call.stages[call.stage]) = 2 /\ call.order = <<2, 1>>
  /\ Len(ret.value.neighbors) = 2
  /\ ret.value.neighbors[1].edgesFromCandidate
       # ret.value.neighbors[2].edgesFromCandidate

\* C20: when a store read of getKHopNeighborIds, searchSurroundings or
\* findPaths fails or times out, the operation ends in an error: the result is
\* no list and no response, no read is issued afterwards, and a call that is
\* waiting for reads always comes to its end.
C20_FailedReadEndsInError ==
  /\ []((call.op # "idle" /\ call.rejected) =>
          (call.phase = "done" /\ ret.status = "error" /\ ret.value = <<>>))
  /\ [][(call.op # "idle" /\ call.rejected) =>
          (call'.issued = call.issued /\ ret' = ret)]_vars
  /\ (Reading ~> Ended)

\* A searchSurroundings call had one of its two edge lookups fulfilled and the
\* other rejected by a timeout, after the three reads before them succeeded.
C20_Witness ==
  /\ Called("searchSurroundings") /\ Ended /\ call.rejected
  /\ call.stage = Len(call.stages) /\ call.stage >= 4
  /\ Len(call.stages[call.stage]) = 2 /\ Cardinality(call.settled) = 1
  /\ ret.status = "error"
  /\ \/ ret.kind = "store timeout"
     \/ ret.kind = "Failed to get edges between nodes"

\* ----------------------------------------------------------------------- C21
\* The call names a graph id the store does not know.
UnknownGraphCall ==
  call.op # "idle" /\ \E i \in 1..Len(call.G) : call.G[i] \notin KnownGraphs

\* C21: every store operation called with a graph id the store does not know
\* fails with UnknownGraph instead of returning a result.
C21_UnknownGraphFails ==
  UnknownGraphCall => ret = Err("UnknownGraph")

\* ----------------------------------------------------------------------- C22
\* The node rows of the graphs of G whose id is in the list ids.
Listed(G, ids) == {i \in NodesIn(G) : nodes[i].id \in Range(ids)}

\* C22: getNodesByIds with an empty id list returns the empty list without
\* issuing a store read; with a non-empty list it returns exactly the node
\* records of the given graphs whose id is in the list, one record per
\* (graph id, id) pair and none for an id that does not exist.
C22_NodesByIdsExact ==
  (Called("getNodesByIds") /\ Ended) =>
    /\ Len(call.nodeIds) = 0 => (ret = Ok(<<>>) /\ call.issued = 0)
    /\ (Len(call.nodeIds) > 0 /\ GraphsReadable) =>
         (call.issued = 1 /\ (call.rejected \/ ret.status = "ok"))
    /\ (Len(call.nodeIds) > 0 /\ ret.status = "ok") =>
         /\ Range(ret.value) = {nodes[i] : i \in Listed(call.G, call.nodeIds)}
         /\ \A i, j \in 1..Len(ret.value) :
              (/\ ret.value[i].knowledgeGraphId = ret.value[j].knowledgeGraphId
               /\ ret.value[i].id = ret.value[j].id) => i = j

\* Two ids asked of both graphs, one of them stored in both, the other in
\* one graph only: three records come back.
C22_Witness ==
  /\ Called("getNodesByIds") /\ Ended /\ ret.status = "ok"
  /\ call.G = <<2, 1>> /\ call.nodeIds = <<"a", "b">>
  /\ Len(ret.value) = 3
  /\ Cardinality(NodesIn(<<1>>)) = 2

\* ----------------------------------------------------------------------- C23
\* What the call c returns from the backend b over the stored tables.
Answer(b, c, e) ==
  CASE c.op = "searchNodesByName" ->
         searchNodesByName(b, nodes, c.name, c.G, c.limit, e)
    [] c.op = "getNodesByIds" -> getNodesByIds(b, nodes, c.G, c.nodeIds, e)
    [] c.op = "getEdgesBetweenNodes" ->
         getEdgesBetweenNodes(b, edges, c.G, c.node1Id, c.node2Id, e)
    [] c.op = "getNeighbors" -> getNeighbors(b, edges, c.G, c.nodeId, c.edgeType, e)
    [] c.op = "getKHopNeighborIds" ->
         getKHopNeighborIds(b, edges, c.G, c.nodeId, c.k, c.edgeType, e)
    [] c.op = "findPaths" ->
         findPaths(b, nodes, edges, c.G, c.sourceNodeId, c.destinationNodeId, e)

OtherBackend == IF backend = "parquet" THEN "pg" ELSE "parquet"

\* Both fail, or both return the same set of results.
SameOutcome(r1, r2) ==
  /\ r1.status = r2.status
  /\ r1.status = "ok" => Range(r1.value) = Range(r2.value)

\* The answer of a limited search is a choice of rows: the sets are compared
\* when the limit cuts nothing off.
Uncut == call.op = "searchNodesByName" => call.limit >= Len(nodes)

\* C23: over the same nodes and edges and for the same arguments the six query
\* functions of the parquet store and of the relational store return the same
\* set of results and fail in the same cases.
C23_BackendsInterchangeable ==
  (call.op # "idle" /\ PgValid(nodes, edges) /\ Uncut) =>
    \E e \in InArrayEmpty : SameOutcome(ret, Answer(OtherBackend, call, e))

\* The same, for calls that name one known graph: there the two agree.
C23_OneKnownGraphAgrees ==
  (/\ call.op # "idle" /\ PgValid(nodes, edges) /\ Uncut
   /\ GraphsReadable /\ Len(call.G) = 1) =>
    \E e \in InArrayEmpty : SameOutcome(ret, Answer(OtherBackend, call, e))

\* ----------------------------------------------------------------------- C24
\* C24: the tool set makeGraphTools builds for a non-empty list of graph ids
\* contains every tool the README lists as available to each agent.
C24_ToolSetHasReadmeTools ==
  (Called("makeGraphTools") /\ Len(call.G) > 0) => ReadmeTools \subseteq ret.value

\* ----------------------------------------------------------------------- C25
\* The node record of id in the graphs of G, as a set (empty if there is none).
RecordsOf(G, id) == {nodes[i] : i \in {j \in NodesIn(G) : nodes[j].id = id}}

\* The store holds an edge of the leg's type between the leg's two nodes.
LegStored(G, leg) ==
  \E j \in EdgesIn(G) :
    /\ {edges[j].from, edges[j].to} = {leg.tailNode.id, leg.headNode.id}
    /\ edges[j].type = leg.edgeType

\* C25: every Path of findPaths has exactly two legs, from the source node to
\* the intermediate node and from the intermediate node to the destination
\* node; both edge types are non-null, and the store holds, for each leg, an
\* edge of that type between the leg's two nodes, in either direction, in the
\* given graphs.
C25_PathsAreTwoStoredLegs ==
  (Called("findPaths") /\ ret.status = "ok") =>
    \A i \in 1..Len(ret.value) :
      LET legs == ret.value[i].legs
      IN /\ Len(legs) = 2
         /\ legs[1].tailNode \in RecordsOf(call.G, call.sourceNodeId)
         /\ legs[1].headNode = legs[2].tailNode
         /\ legs[1].headNode \in RecordsOf(call.G, legs[1].headNode.id)
         /\ legs[2].headNode \in RecordsOf(call.G, call.destinationNodeId)
         /\ legs[1].edgeType # Null /\ legs[2].edgeType # Null
         /\ LegStored(call.G, legs[1]) /\ LegStored(call.G, legs[2])

\* One path from a over c to b, its first leg of type t and its second of
\* type u, in a store that holds no edge of type u at a and none of type t at b.
C25_Witness ==
  /\ Called("findPaths") /\ call.sourceNodeId = "a" /\ call.destinationNodeId = "b"
  /\ ret.status = "ok" /\ Len(ret.value) = 1
  /\ ret.value[1].legs[1].headNode.id = "c"
  /\ ret.value[1].legs[1].edgeType = "t" /\ ret.value[1].legs[2].edgeType = "u"
  /\ Touching(call.G, "a", "u") = {} /\ Touching(call.G, "b", "t") = {}

\* ----------------------------------------------------------------------- C28
\* C28: in every Path of findPaths(G, A, B) the intermediate node differs from
\* A and from B, also in stores with self-loop edges on A or B and for A = B.
C28_IntermediateIsThirdNode ==
  (Called("findPaths") /\ ret.status = "ok") =>
    \A i \in 1..Len(ret.value) :
      ret.value[i].legs[1].headNode.id
        \notin {call.sourceNodeId, call.destinationNodeId}

\* The same over stores without self-loop edges.
C28_ThirdNodeWithoutSelfLoops ==
  (/\ Called("findPaths") /\ ret.status = "ok"
   /\ \A j \in 1..Len(edges) : edges[j].from # edges[j].to) =>
    \A i \in 1..Len(ret.value) :
      ret.value[i].legs[1].headNode.id
        \notin {call.sourceNodeId, call.destinationNodeId}

\* ----------------------------------------------------------------------- C26
\* C26: the loader creates its shared DuckDB instance at most once, also when
\* getInstance is called again before the first creation has resolved, and
\* every caller receives the same instance.
C26_OneSharedInstance ==
  Called("getInstance") =>
    /\ Loader.created <= 1
    /\ \A i, j \in Callers :
         (call.pc[i] = "done" /\ call.pc[j] = "done") => call.got[i] = call.got[j]

\* ----------------------------------------------------------------------- C27
\* The progress file of graph g records the step as complete.
Flagged(g, step) ==
  DataDir[g].progress.readable /\ DataDir[g].progress[FlagOf(step)]

\* Every flag in a progress file stands for a parquet file whose COPY finished.
FlagsFollowCopies ==
  \A g \in ExportGraphs :
    /\ Flagged(g, "nodes") => DataDir[g].nodes = "complete"
    /\ Flagged(g, "edges") => DataDir[g].edges = "complete"

\* A run that ended normally left both flags set for every graph.
NormalEndAllFlagged ==
  call.phase = "done" =>
    \A g \in ExportGraphs : Flagged(g, "nodes") /\ Flagged(g, "edges")

\* A step whose COPY is sent was not flagged; a step passed over was.
StepRunsIffUnflagged ==
  /\ (call.phase # "copying" /\ call'.phase = "copying")
       => ~Flagged(call.graph, call.step)
  /\ (call.phase = "check" /\ call.step # "load" /\ call.step # "none"
        /\ call'.phase # "copying" /\ call'.phase # "stopped")
       => Flagged(call.graph, call.step)
  /\ (call.step = "load" /\ call'.step # "load" /\ call'.step # "nodes"
        /\ call'.phase # "stopped")
       => (Flagged(call.graph, "nodes") /\ Flagged(call.graph, "edges"))

\* C27: the progress file records a step as complete only after its COPY
\* finished; wherever the script is interrupted and however often it is
\* started again, a flagged step is not run again, an unflagged step is, and a
\* run that ends normally leaves both flags set for every graph.
C27_ExportResumes ==
  /\ [](Called("export") => (FlagsFollowCopies /\ NormalEndAllFlagged))
  /\ [][Called("export") => StepRunsIffUnflagged]_vars

\* The second run, started after the first was interrupted, has passed over
\* the flagged nodes of graph 1 and copies its edges, which the first run had
\* begun to copy; graph 2 is untouched.
C27_Witness ==
  /\ Called("export") /\ call.run = 2 /\ call.graph = 1
  /\ call.step = "edges" /\ call.phase = "copying"
  /\ Flagged(1, "nodes") /\ ~Flagged(1, "edges")
  /\ DataDir[2].nodes = "none"

\* ----------------------------------------------------------------------- C29
\* The ids a returned two-hop list holds after the 1-hop list of its first read.
TwoHopPart == SubSeq(ret.value, Len(call.oneHopNeighbors) + 1, Len(ret.value))

\* C29: whatever edges other clients insert and delete between the reads of
\* getKHopNeighborIds with hops = 2, the returned list has no duplicate id and
\* its 2-hop-only part holds neither the reference node id nor an id of the
\* first read's 1-hop list.
C29_TwoHopListCleanUnderWrites ==
  (Called("getKHopNeighborIds") /\ call.phase = "done") =>
    /\ \A i, j \in 1..Len(ret.value) : ret.value[i] = ret.value[j] => i = j
    /\ SubSeq(ret.value, 1, Len(call.oneHopNeighbors)) = call.oneHopNeighbors
    /\ call.nodeId \notin Range(TwoHopPart)
    /\ Range(TwoHopPart) \cap Range(call.oneHopNeighbors) = {}

\* The list b, c, d is returned although the store never held more than two
\* edges, and d, found two hops away, is by now a direct neighbor of a.
C29_Witness ==
  /\ Called("getKHopNeighborIds") /\ call.phase = "done"
  /\ ret.value = <<"b", "c", "d">>
  /\ call.oneHopNeighbors = <<"b", "c">>
  /\ "d" \in Adjacent(call.G, "a")

\* ----------------------------------------------------------------------- C30
\* The edge types a 1-hop neighbor is returned with, in either direction.
EdgeEntries(v) == v.edgesToCandidate \o v.edgesFromCandidate

\* C30: on an unchanged store every neighbor of a 1-hop searchSurroundings has
\* at least one entry in edgesToCandidate or edgesFromCandidate, and when an
\* edgeType is given at least one of the entries equals it.
C30_OneHopNeighborsHaveEdges ==
  (SurroundingsAnswered /\ call.k # "2") =>
    \A i \in 1..Len(ret.value.neighbors) :
      LET v == ret.value.neighbors[i]
      IN /\ Len(EdgeEntries(v)) >= 1
         /\ Truthy(call.edgeType) => call.edgeType \in Range(EdgeEntries(v))

\* Filtered by type t, the neighbor b comes back with its edge of type t and,
\* in the other list, an edge of another type.
C30_Witness ==
  /\ SurroundingsAnswered /\ call.k # "2" /\ call.edgeType = "t"
  /\ \E i \in 1..Len(ret.value.neighbors) :
       /\ ret.value.neighbors[i].id = "b"
       /\ ret.value.neighbors[i].edgesFromCandidate = <<"u">>
       /\ ret.value.neighbors[i].edgesToCandidate = <<"t">>

====
